---- MODULE Spec2Model ----
(***************************************************************************)
(* CC-Diagnostics: the report interpreter (cc_diagnostics/output_parser.py) *)
(* as a state machine.  A caller hands a report to interpret_report, which  *)
(* either returns a summary or raises; the two lru_cache tables of the      *)
(* module survive from one call to the next.  SpecScan is one scan of       *)
(* diagnostics.main run by gui.DiagnosticWorker, stage by stage;            *)
(* SpecController is gui.DiagnosticController over its log directory and    *)
(* its worker threads; SpecSettings is settings.json under _load_settings,  *)
(* loadSetting and updateSetting; SpecExport is                             *)
(* report_renderer.export_latest_report; SpecMetrics is one polled          *)
(* utils.system_metrics.SystemMetrics instance.                             *)
(*                                                                          *)
(* Python values are records [k, n, s]: k is the Python type ("absent" for  *)
(* a key that is missing from its mapping), n the numeric value in tenths   *)
(* (so 79.9 is 799 and the int 80 is 800), s the text of a str.             *)
(***************************************************************************)
EXTENDS Integers, Sequences, FiniteSets, TLC

VARIABLES
    report,        \* the argument of the call of interpret_report in progress
    pc,            \* "call": the call is to run; "return" / "raise": how it ended
    exc,           \* the exception type when pc = "raise", "" otherwise
    summary,       \* the mapping the call returned (NoSummary until it returns)
    status_cache,  \* lru_cache of _get_status_for_percentage, least recent first
    score_cache,   \* lru_cache of _calculate_health_score, least recent first
    history,       \* every finished call, as <<report, outcome>>
    ncalls,        \* number of calls made so far
    stage,         \* diagnostics.main: the stage to run next ("idle": no scan)
    scan,          \* diagnostics.main: its local variables
    scan_report,   \* diagnostics.main: the report mapping, key -> value
    json_file,     \* the text of diagnostic_*.json, <<>> until it is written
    failures,      \* the collectors whose platform API failed in this scan
    main_exc,      \* the exception main raised, as [type, stage], or NoExc
    _should_stop,  \* DiagnosticWorker._should_stop
    stopped_at,    \* the stage that was to run when stop() was called
    signals,       \* the signals the worker emitted, in order
    log_dir,       \* the diagnostic_*.json files of LOG_DIR: [name, mtime, report]
    latest_file_cache,     \* lru_cache of DiagnosticController._get_latest_report_file
    _latest_report_cache,  \* DiagnosticController._latest_report_cache
    _cache_timestamp,      \* DiagnosticController._cache_timestamp
    _worker,       \* DiagnosticController._worker: the worker's number, 0 for None
    workers,       \* the DiagnosticWorker threads started so far: [phase, _should_stop]
    events,        \* the worker signals queued for the GUI thread, oldest first
    loading,       \* the value of the last loading signal of the controller
    handled,       \* the worker signal the controller handled last
    loaded,        \* what the last call of loadLatestReport returned, or NotLoaded
    settings_file,         \* settings.json on disk: [exists, mtime, text]
    load_settings_cache,   \* lru_cache of _load_settings: <<>> or the one dict it holds
    _settings_cache,       \* diagnostics._settings_cache: NoSettings (None) or a dict
    _settings_cache_time,  \* diagnostics._settings_cache_time
    last_call,             \* the settings call that just returned, with what it saw
    export_logs,   \* export_latest_report: the diagnostic_*.json of log_dir, glob order
    output_dir,    \* export_latest_report: [exists, files] of output_dir
    exported,      \* the call of export_latest_report that just ended
    metrics,       \* the fields of the SystemMetrics instance
    clock,         \* time.time(), in seconds
    collect_call      \* how the last call of SystemMetrics.collect ended

interp_vars == <<report, pc, exc, summary, status_cache, score_cache, history, ncalls>>

main_vars ==
    <<stage, scan, scan_report, json_file, failures, main_exc, _should_stop,
      stopped_at, signals>>

gui_vars ==
    <<log_dir, latest_file_cache, _latest_report_cache, _cache_timestamp, _worker, loaded,
      workers, events, loading, handled>>

settings_vars ==
    <<settings_file, load_settings_cache, _settings_cache, _settings_cache_time,
      last_call>>

export_vars == <<export_logs, output_dir, exported>>

metrics_vars == <<metrics, clock, collect_call>>

vars == <<interp_vars, main_vars, gui_vars, settings_vars, export_vars, metrics_vars>>

---------------------------------------------------------------------------
(* Bounds of the model *)

\* number of drive entries in storage.smart
MaxDrives == 2

\* number of calls of interpret_report in one run of SpecCalls
MaxCalls == 3

---------------------------------------------------------------------------
(* Python values *)

Scalar(k, n, s) == [k |-> k, n |-> n, s |-> s]

Absent == Scalar("absent", 0, "")

NoneV == Scalar("none", 0, "")

IntV(i) == Scalar("int", 10 * i, "")

FloatV(tenths) == Scalar("float", tenths, "")

BoolV(b) == Scalar("bool", IF b THEN 10 ELSE 0, "")

StrV(s) == Scalar("str", 0, s)

\* dict.get(key, default): the default stands in for a missing key only
Get(v, default) == IF v.k = "absent" THEN default ELSE v

\* isinstance(v, (int, float)); bool is a subclass of int
IsIntOrFloat(v) == v.k \in {"int", "float", "bool"}

\* isinstance(v, int)
IsInt(v) == v.k \in {"int", "bool"}

\* v >= c raises TypeError unless v is a number
Comparable(v) == v.k \in {"int", "float", "bool"}

GE(v, c) == v.n >= 10 * c

LT(v, c) == v.n < 10 * c

Digit(d) ==
    CASE d = 0 -> "0" [] d = 1 -> "1" [] d = 2 -> "2" [] d = 3 -> "3"
      [] d = 4 -> "4" [] d = 5 -> "5" [] d = 6 -> "6" [] d = 7 -> "7"
      [] d = 8 -> "8" [] OTHER -> "9"

RECURSIVE IntStr(_)
IntStr(i) == IF i < 10 THEN Digit(i) ELSE IntStr(i \div 10) \o Digit(i % 10)

\* str(v) as an f-string field renders it: 85 -> "85", 85.0 -> "85.0", True -> "True"
Str(v) ==
    CASE v.k = "int" -> IntStr(v.n \div 10)
      [] v.k = "float" -> IntStr(v.n \div 10) \o "." \o Digit(v.n % 10)
      [] v.k = "bool" -> (IF v.n = 10 THEN "True" ELSE "False")
      [] v.k = "none" -> "None"
      [] OTHER -> v.s

\* sub in s
Contains(s, sub) ==
    \E i \in 1..(Len(s) - Len(sub) + 1) : SubSeq(s, i, i + Len(sub) - 1) = sub

RECURSIVE Join(_, _)
\* sep.join(parts)
Join(sep, parts) ==
    IF Len(parts) = 0 THEN ""
    ELSE IF Len(parts) = 1 THEN parts[1]
    ELSE parts[1] \o sep \o Join(sep, Tail(parts))

---------------------------------------------------------------------------
(* Constants of output_parser.py *)

TEMP_THRESHOLDS ==
    [cpu_warning |-> 80, cpu_critical |-> 90, gpu_warning |-> 85, gpu_critical |-> 95]

DISK_THRESHOLDS == [warning |-> 80, critical |-> 90]

STATUS_GOOD == "Good"

STATUS_WARNING == "Warning"

STATUS_CRITICAL == "Critical"

StatusCacheSize == 32

ScoreCacheSize == 64

---------------------------------------------------------------------------
(* functools.lru_cache: a table of [key, value], least recently used first *)

CacheIndex(cache, key) ==
    IF \E i \in 1..Len(cache) : cache[i].key = key
    THEN CHOOSE i \in 1..Len(cache) : cache[i].key = key
    ELSE 0

\* One call through the cache: a hit returns the stored value and makes the
\* entry the most recent one; a miss stores `computed` and, past maxsize,
\* drops the least recently used entry.
lru_cache(cache, maxsize, key, computed) ==
    LET i == CacheIndex(cache, key)
        full == Append(cache, [key |-> key, value |-> computed])
    IN  IF i > 0
        THEN [result |-> cache[i].value,
              cache  |-> SubSeq(cache, 1, i - 1) \o SubSeq(cache, i + 1, Len(cache))
                            \o <<cache[i]>>]
        ELSE [result |-> computed,
              cache  |-> IF Len(full) > maxsize THEN Tail(full) ELSE full]

\* The key lru_cache makes of the arguments: a tuple compared with ==, so that
\* 95 and 95.0 (and True and 1) are one key.
StatusKeyRounded(value, warning_threshold, critical_threshold) ==
    <<(value.n + 5) \div 10, warning_threshold, critical_threshold>>

StatusKey(value, warning_threshold, critical_threshold) ==
    <<value.n, warning_threshold, critical_threshold>>

\* >= written as > at both thresholds
_get_status_for_percentage_strict(value, warning_threshold, critical_threshold) ==
    IF value.n > 10 * critical_threshold THEN STATUS_CRITICAL
    ELSE IF value.n > 10 * warning_threshold THEN STATUS_WARNING
    ELSE STATUS_GOOD

_get_status_for_percentage(value, warning_threshold, critical_threshold) ==
    IF GE(value, critical_threshold) THEN STATUS_CRITICAL
    ELSE IF GE(value, warning_threshold) THEN STATUS_WARNING
    ELSE STATUS_GOOD

---------------------------------------------------------------------------
(* The analysers.  Each returns [exc, status, warnings]; exc is "" when the *)
(* function returns and the exception type when it raises.                  *)

Returned(status, warnings) == [exc |-> "", status |-> status, warnings |-> warnings]

Raised(type) == [exc |-> type, status |-> "", warnings |-> <<>>]

\* the 80 threshold read where the 90 one is meant
_analyze_temperatures_one_threshold(temps) ==
    IF temps.k /= "dict" THEN Raised("AttributeError")
    ELSE LET cpu_temp == Get(temps.cpu_c, NoneV)
         IN  IF IsIntOrFloat(cpu_temp) /\ GE(cpu_temp, TEMP_THRESHOLDS.cpu_warning)
             THEN Returned(STATUS_CRITICAL,
                           <<"CPU temperature critical: " \o Str(cpu_temp) \o "°C">>)
             ELSE Returned(STATUS_GOOD, <<>>)

_analyze_temperatures(temps) ==
    IF temps.k /= "dict" THEN Raised("AttributeError")
    ELSE LET cpu_temp == Get(temps.cpu_c, NoneV)
         IN  IF IsIntOrFloat(cpu_temp) /\ GE(cpu_temp, TEMP_THRESHOLDS.cpu_critical)
             THEN Returned(STATUS_CRITICAL,
                           <<"CPU temperature critical: " \o Str(cpu_temp) \o "°C">>)
             ELSE IF IsIntOrFloat(cpu_temp) /\ GE(cpu_temp, TEMP_THRESHOLDS.cpu_warning)
             THEN Returned(STATUS_WARNING,
                           <<"CPU temperature high: " \o Str(cpu_temp) \o "°C">>)
             ELSE Returned(STATUS_GOOD, <<>>)

\* {}: the default of storage.get("usage", {})
EmptyUsage == [k |-> "dict", used_percent |-> Absent]

\* {}: the default of storage.get("smart", {})
EmptySmart == [k |-> "dict", drives |-> <<>>]

\* failed_drives: the keys of smart_data, in the mapping's order, whose entry
\* is a dict with entry.get("healthy") != "PASSED"
FailedDrives(drives) ==
    LET failed == SelectSeq(drives, LAMBDA d :
                      d.info.k = "dict" /\ Get(d.info.healthy, NoneV) /= StrV("PASSED"))
    IN  [i \in 1..Len(failed) |-> failed[i].name]

ReturnedCache(status, warnings, cache) ==
    [exc |-> "", status |-> status, warnings |-> warnings, cache |-> cache]

RaisedCache(type, cache) ==
    [exc |-> type, status |-> "", warnings |-> <<>>, cache |-> cache]

\* a failed drive no longer overrides the usage status
_analyze_storage_no_override(storage, cache) ==
    IF storage.k /= "dict" THEN RaisedCache("AttributeError", cache)
    ELSE LET usage == Get(storage.usage, EmptyUsage)
         IN  IF usage.k /= "dict" THEN RaisedCache("AttributeError", cache)
             ELSE
             LET used_percent == Get(usage.used_percent, IntV(0))
                 numeric == IsIntOrFloat(used_percent)
                 looked ==
                     IF numeric
                     THEN lru_cache(cache, StatusCacheSize,
                              StatusKey(used_percent, DISK_THRESHOLDS.warning,
                                        DISK_THRESHOLDS.critical),
                              _get_status_for_percentage(used_percent,
                                  DISK_THRESHOLDS.warning, DISK_THRESHOLDS.critical))
                     ELSE [result |-> "", cache |-> cache]
                 usage_warnings ==
                     IF looked.result = STATUS_CRITICAL
                     THEN <<"Disk space critically low: " \o Str(used_percent) \o "% used">>
                     ELSE IF looked.result = STATUS_WARNING
                     THEN <<"Disk space running low: " \o Str(used_percent) \o "% used">>
                     ELSE <<>>
                 usage_status ==
                     IF looked.result \in {STATUS_CRITICAL, STATUS_WARNING}
                     THEN looked.result ELSE STATUS_GOOD
                 smart_data == Get(storage.smart, EmptySmart)
             IN  IF smart_data.k /= "dict"
                 THEN RaisedCache("AttributeError", looked.cache)
                 ELSE
                 LET failed_drives == FailedDrives(smart_data.drives)
                 IN  IF failed_drives /= <<>>
                     THEN ReturnedCache(usage_status,
                              usage_warnings \o
                              <<"SMART health check failed for drives: "
                                  \o Join(", ", failed_drives)>>,
                              looked.cache)
                     ELSE ReturnedCache(usage_status, usage_warnings, looked.cache)

_analyze_storage(storage, cache) ==
    IF storage.k /= "dict" THEN RaisedCache("AttributeError", cache)
    ELSE LET usage == Get(storage.usage, EmptyUsage)
         IN  IF usage.k /= "dict" THEN RaisedCache("AttributeError", cache)
             ELSE
             LET used_percent == Get(usage.used_percent, IntV(0))
                 numeric == IsIntOrFloat(used_percent)
                 looked ==
                     IF numeric
                     THEN lru_cache(cache, StatusCacheSize,
                              StatusKey(used_percent, DISK_THRESHOLDS.warning,
                                        DISK_THRESHOLDS.critical),
                              _get_status_for_percentage(used_percent,
                                  DISK_THRESHOLDS.warning, DISK_THRESHOLDS.critical))
                     ELSE [result |-> "", cache |-> cache]
                 usage_warnings ==
                     IF looked.result = STATUS_CRITICAL
                     THEN <<"Disk space critically low: " \o Str(used_percent) \o "% used">>
                     ELSE IF looked.result = STATUS_WARNING
                     THEN <<"Disk space running low: " \o Str(used_percent) \o "% used">>
                     ELSE <<>>
                 usage_status ==
                     IF looked.result \in {STATUS_CRITICAL, STATUS_WARNING}
                     THEN looked.result ELSE STATUS_GOOD
                 smart_data == Get(storage.smart, EmptySmart)
             IN  IF smart_data.k /= "dict"
                 THEN RaisedCache("AttributeError", looked.cache)
                 ELSE
                 LET failed_drives == FailedDrives(smart_data.drives)
                 IN  IF failed_drives /= <<>>
                     THEN ReturnedCache(STATUS_CRITICAL,
                              usage_warnings \o
                              <<"SMART health check failed for drives: "
                                  \o Join(", ", failed_drives)>>,
                              looked.cache)
                     ELSE ReturnedCache(usage_status, usage_warnings, looked.cache)

\* low RAM makes the system Warning without saying so
_analyze_system_silent(system) ==
    IF system.k /= "dict" THEN Raised("AttributeError")
    ELSE LET ram_gb == Get(system.RAM_GB, IntV(0))
             ram_low == IsIntOrFloat(ram_gb) /\ LT(ram_gb, 8)
             cores == Get(system.Cores, IntV(0))
             cores_low == IsInt(cores) /\ LT(cores, 4)
         IN  Returned(
                 IF ram_low \/ cores_low THEN STATUS_WARNING ELSE STATUS_GOOD,
                 IF cores_low
                 THEN <<"Low CPU core count: " \o Str(cores) \o " cores">> ELSE <<>>)

\* low RAM together with few cores is Critical
_analyze_system_critical(system) ==
    IF system.k /= "dict" THEN Raised("AttributeError")
    ELSE LET ram_gb == Get(system.RAM_GB, IntV(0))
             ram_low == IsIntOrFloat(ram_gb) /\ LT(ram_gb, 8)
             cores == Get(system.Cores, IntV(0))
             cores_low == IsInt(cores) /\ LT(cores, 4)
         IN  Returned(
                 IF ram_low /\ cores_low THEN STATUS_CRITICAL
                 ELSE IF ram_low \/ cores_low THEN STATUS_WARNING ELSE STATUS_GOOD,
                 (IF ram_low
                  THEN <<"Low RAM detected: " \o Str(ram_gb) \o " GB">> ELSE <<>>)
                 \o
                 (IF cores_low
                  THEN <<"Low CPU core count: " \o Str(cores) \o " cores">> ELSE <<>>))

_analyze_system(system) ==
    IF system.k /= "dict" THEN Raised("AttributeError")
    ELSE LET ram_gb == Get(system.RAM_GB, IntV(0))
             ram_low == IsIntOrFloat(ram_gb) /\ LT(ram_gb, 8)
             cores == Get(system.Cores, IntV(0))
             cores_low == IsInt(cores) /\ LT(cores, 4)
         IN  Returned(
                 IF ram_low \/ cores_low THEN STATUS_WARNING ELSE STATUS_GOOD,
                 (IF ram_low
                  THEN <<"Low RAM detected: " \o Str(ram_gb) \o " GB">> ELSE <<>>)
                 \o
                 (IF cores_low
                  THEN <<"Low CPU core count: " \o Str(cores) \o " cores">> ELSE <<>>))

\* any(sub in warning for warning in warnings)
AnyContains(warnings, sub) == \E i \in 1..Len(warnings) : Contains(warnings[i], sub)

\* the SMART block appended only when no usage block was
_generate_recommendations_exclusive(storage_warnings, temp_warnings, system_warnings, storage_data) ==
    LET usage == Get(storage_data.usage, EmptyUsage)
        used_percent == Get(usage.used_percent, IntV(0))
        smart_data == Get(storage_data.smart, EmptySmart)
    IN  IF ~Comparable(used_percent)
        THEN [exc |-> "TypeError", recommendations |-> <<>>]
        ELSE [exc |-> "",
              recommendations |->
                (IF GE(used_percent, DISK_THRESHOLDS.critical)
                 THEN <<"Urgent: Free up disk space immediately",
                        "Run disk cleanup utility",
                        "Consider upgrading to a larger drive">>
                 ELSE IF GE(used_percent, DISK_THRESHOLDS.warning)
                 THEN <<"Run disk cleanup to free up space",
                        "Move large files to external storage",
                        "Uninstall unused programs">>
                 ELSE IF FailedDrives(smart_data.drives) /= <<>>
                 THEN <<"Back up important data immediately",
                        "Consider replacing the failing drive",
                        "Run extended drive diagnostics">>
                 ELSE <<>>)
                \o
                (IF temp_warnings /= <<>>
                 THEN <<"Check system cooling and clean dust from fans",
                        "Ensure proper ventilation around the computer",
                        "Consider updating thermal paste on CPU">>
                 ELSE <<>>)
                \o
                (IF AnyContains(system_warnings, "RAM")
                 THEN <<"Consider upgrading RAM for better performance">> ELSE <<>>)
                \o
                (IF AnyContains(system_warnings, "core")
                 THEN <<"Consider upgrading CPU for better performance">> ELSE <<>>)]

\* Returns [exc, recommendations]; the comparison of used_percent with a
\* threshold raises TypeError when used_percent is not a number.
_generate_recommendations(storage_warnings, temp_warnings, system_warnings, storage_data) ==
    LET usage == Get(storage_data.usage, EmptyUsage)
        used_percent == Get(usage.used_percent, IntV(0))
        smart_data == Get(storage_data.smart, EmptySmart)
    IN  IF ~Comparable(used_percent)
        THEN [exc |-> "TypeError", recommendations |-> <<>>]
        ELSE [exc |-> "",
              recommendations |->
                (IF GE(used_percent, DISK_THRESHOLDS.critical)
                 THEN <<"Urgent: Free up disk space immediately",
                        "Run disk cleanup utility",
                        "Consider upgrading to a larger drive">>
                 ELSE IF GE(used_percent, DISK_THRESHOLDS.warning)
                 THEN <<"Run disk cleanup to free up space",
                        "Move large files to external storage",
                        "Uninstall unused programs">>
                 ELSE <<>>)
                \o
                (IF FailedDrives(smart_data.drives) /= <<>>
                 THEN <<"Back up important data immediately",
                        "Consider replacing the failing drive",
                        "Run extended drive diagnostics">>
                 ELSE <<>>)
                \o
                (IF temp_warnings /= <<>>
                 THEN <<"Check system cooling and clean dust from fans",
                        "Ensure proper ventilation around the computer",
                        "Consider updating thermal paste on CPU">>
                 ELSE <<>>)
                \o
                (IF AnyContains(system_warnings, "RAM")
                 THEN <<"Consider upgrading RAM for better performance">> ELSE <<>>)
                \o
                (IF AnyContains(system_warnings, "core")
                 THEN <<"Consider upgrading CPU for better performance">> ELSE <<>>)]

\* status_penalties.get(status, 0)
status_penalties(status) ==
    CASE status = STATUS_CRITICAL -> 30
      [] status = STATUS_WARNING -> 15
      [] OTHER -> 0

Max(a, b) == IF a >= b THEN a ELSE b

\* a flat penalty for the worst component instead of one per component
_calculate_health_score_worst_only(temp_status, storage_status, system_status) ==
    Max(0, 100 - Max(status_penalties(temp_status),
                     Max(status_penalties(storage_status),
                         status_penalties(system_status))))

_calculate_health_score(temp_status, storage_status, system_status) ==
    Max(0, 100 - status_penalties(temp_status) - status_penalties(storage_status)
               - status_penalties(system_status))

---------------------------------------------------------------------------
(* interpret_report *)

\* {}: the default of report.get("temps", {})
EmptyTemps == [k |-> "dict", cpu_c |-> Absent]

AbsentUsage == [k |-> "absent", used_percent |-> Absent]

AbsentSmart == [k |-> "absent", drives |-> <<>>]

\* {}: the default of report.get("storage", {})
EmptyStorage == [k |-> "dict", usage |-> AbsentUsage, smart |-> AbsentSmart]

\* {}: the default of report.get("system", {})
EmptySystem == [k |-> "dict", RAM_GB |-> Absent, Cores |-> Absent]

\* no summary: the call has not returned
NoSummary ==
    [status |-> "", warnings |-> <<>>, recommendations |-> <<>>,
     component_status |-> [temperatures |-> "", storage |-> "", system |-> ""],
     health_score |-> -1]

Raise(type, cache1, cache2) ==
    [exc |-> type, summary |-> NoSummary, status_cache |-> cache1, score_cache |-> cache2]

\* the warnings of the three components put together storage first
CombineStorageFirst(temp_warnings, storage_warnings, system_warnings) ==
    storage_warnings \o temp_warnings \o system_warnings

\* all_warnings
Combine(temp_warnings, storage_warnings, system_warnings) ==
    temp_warnings \o storage_warnings \o system_warnings

\* a Critical component reported as Warning overall
OverallNeverCritical(statuses) ==
    IF \E i \in 1..Len(statuses) : statuses[i] \in {STATUS_CRITICAL, STATUS_WARNING}
    THEN STATUS_WARNING
    ELSE STATUS_GOOD

\* overall_status: the worst case of the list
Overall(statuses) ==
    IF \E i \in 1..Len(statuses) : statuses[i] = STATUS_CRITICAL THEN STATUS_CRITICAL
    ELSE IF \E i \in 1..Len(statuses) : statuses[i] = STATUS_WARNING THEN STATUS_WARNING
    ELSE STATUS_GOOD

\* One call: [exc, summary, status_cache, score_cache], the two caches as the
\* call leaves them whether it returns or raises.
interpret_report(rep, cache1, cache2) ==
    LET temps == Get(rep.temps, EmptyTemps)
        storage == Get(rep.storage, EmptyStorage)
        system == Get(rep.system, EmptySystem)
        t == _analyze_temperatures(temps)
    IN  IF t.exc /= "" THEN Raise(t.exc, cache1, cache2)
        ELSE
        LET s == _analyze_storage(storage, cache1)
        IN  IF s.exc /= "" THEN Raise(s.exc, s.cache, cache2)
            ELSE
            LET y == _analyze_system(system)
            IN  IF y.exc /= "" THEN Raise(y.exc, s.cache, cache2)
                ELSE
                LET rec == _generate_recommendations(s.warnings, t.warnings,
                                                     y.warnings, storage)
                IN  IF rec.exc /= "" THEN Raise(rec.exc, s.cache, cache2)
                    ELSE
                    LET score == lru_cache(cache2, ScoreCacheSize,
                                     <<t.status, s.status, y.status>>,
                                     _calculate_health_score(t.status, s.status, y.status))
                    IN  [exc |-> "",
                         summary |->
                           [status |-> Overall(<<t.status, s.status, y.status>>),
                            warnings |-> Combine(t.warnings, s.warnings, y.warnings),
                            recommendations |-> rec.recommendations,
                            component_status |->
                              [temperatures |-> t.status, storage |-> s.status,
                               system |-> y.status],
                            health_score |-> score.result],
                         status_cache |-> s.cache,
                         score_cache |-> score.cache]

---------------------------------------------------------------------------
(* The reports handed to interpret_report *)

CpuValues ==
    {Absent, StrV("Unavailable"), FloatV(799), IntV(80), FloatV(899), IntV(90)}

\* temps: missing, not a mapping, or a mapping with or without cpu_c
TempsInputs ==
    {[k |-> "absent", cpu_c |-> Absent], [k |-> "str", cpu_c |-> Absent]}
    \cup {[k |-> "dict", cpu_c |-> v] : v \in CpuValues}

UsedPercentValues ==
    {Absent, StrV("Unavailable"), IntV(50), FloatV(799), IntV(80), FloatV(899),
     IntV(90)}

UsageInputs ==
    {AbsentUsage, [k |-> "str", used_percent |-> Absent]}
    \cup {[k |-> "dict", used_percent |-> v] : v \in UsedPercentValues}

\* one entry of storage.smart: passed, failed, not a mapping
DriveInfos ==
    {[k |-> "dict", healthy |-> StrV("PASSED")],
     [k |-> "dict", healthy |-> StrV("FAILED")],
     [k |-> "str", healthy |-> Absent]}

DriveName(i) == "/dev/sd" \o Digit(i)

\* the mappings of n drives, in insertion order
SmartDicts(n) ==
    {[k |-> "dict",
      drives |-> [i \in 1..n |-> [name |-> DriveName(i), info |-> f[i]]]] :
        f \in [1..n -> DriveInfos]}

SmartInputs ==
    {AbsentSmart, [k |-> "list", drives |-> <<>>]}
    \cup UNION {SmartDicts(n) : n \in 0..MaxDrives}

StorageInputs ==
    {[k |-> "absent", usage |-> AbsentUsage, smart |-> AbsentSmart],
     [k |-> "str", usage |-> AbsentUsage, smart |-> AbsentSmart]}
    \cup {[k |-> "dict", usage |-> u, smart |-> m] : u \in UsageInputs, m \in SmartInputs}

RamValues == {Absent, StrV("Unavailable"), IntV(4), IntV(8)}

CoresValues == {Absent, StrV("Unavailable"), IntV(2), IntV(4), FloatV(20)}

SystemInputs ==
    {[k |-> "absent", RAM_GB |-> Absent, Cores |-> Absent],
     [k |-> "str", RAM_GB |-> Absent, Cores |-> Absent]}
    \cup {[k |-> "dict", RAM_GB |-> r, Cores |-> c] : r \in RamValues, c \in CoresValues}

Reports ==
    {[temps |-> t, storage |-> s, system |-> y] :
        t \in TempsInputs, s \in StorageInputs, y \in SystemInputs}

\* The reports of a run of several calls: used_percent values on both sides of
\* the thresholds, among them pairs that are one lru_cache key (90 and 90.0).
CallUsedPercent ==
    {StrV("Unavailable"), BoolV(TRUE), FloatV(799), IntV(80), FloatV(800), IntV(90),
     FloatV(900)}

CallReports ==
    {[temps |-> [k |-> "dict", cpu_c |-> c],
      storage |-> [k |-> "dict", usage |-> [k |-> "dict", used_percent |-> v],
                   smart |-> AbsentSmart],
      system |-> [k |-> "dict", RAM_GB |-> IntV(16), Cores |-> IntV(8)]] :
        c \in {Absent, IntV(85)}, v \in CallUsedPercent}

\* The reports of the repository's tests of interpret_report: RAM_GB with or
\* without Cores, no temps or a warm CPU, and used_percent given directly under
\* storage (a key the interpreter never reads) and/or under storage.usage.
TestUsedPercent == {Absent, IntV(50), IntV(95)}

TestReports ==
    {[temps |-> t,
      storage |-> [k |-> "dict",
                   usage |-> (IF u.k = "absent" THEN AbsentUsage
                              ELSE [k |-> "dict", used_percent |-> u]),
                   smart |-> AbsentSmart,
                   used_percent |-> d],
      system |-> [k |-> "dict", RAM_GB |-> r, Cores |-> c]] :
        t \in {[k |-> "absent", cpu_c |-> Absent], [k |-> "dict", cpu_c |-> IntV(85)]},
        u \in TestUsedPercent, d \in TestUsedPercent,
        r \in {Absent, IntV(4), IntV(8), IntV(16)},
        c \in {Absent, IntV(2), IntV(8)}}

---------------------------------------------------------------------------
(* diagnostics.main: collectors, the report mapping, the upload.  A       *)
(* mapping with keys of its own (the report, the summary) is a function    *)
(* from key to value; the environment's answers are arguments.             *)

\* a collector returned value
Collected(value) == [exc |-> "", value |-> value]

\* a collector let the exception of the platform API through
Failed(type) == [exc |-> type, value |-> Absent]

\* what psutil reports of the machine: total RAM in GB, logical cores
SystemReadings == {[ram |-> FloatV(160), cores |-> IntV(8)]}

\* get_system_info(): psutil and platform are called with no handler around them
get_system_info(api_ok, reading) ==
    IF ~api_ok THEN Failed("psutil.Error")
    ELSE Collected([k |-> "dict", RAM_GB |-> reading.ram, Cores |-> reading.cores])

\* psutil.disk_usage("/"): answers, raises OSError, or answers a total of 0 bytes
DiskUsageAnswers == {"ok", "OSError", "zero_total"}

\* round(100 * used / total, 1) of the root drive
UsedPercentReadings == {FloatV(500), FloatV(950)}

\* smart_results: smartctl's verdict of each drive it could read
SmartReadings ==
    {<<>>,
     <<[name |-> "/dev/sda", info |-> [k |-> "dict", healthy |-> StrV("Unknown")]]>>}

\* check_disk_health(): OSError of disk_usage becomes the zero placeholder; a
\* total of 0 divides by zero; psutil.disk_partitions is handled in the drives
\* loop and called unhandled by _get_system_drives.
check_disk_health(usage_answer, used_percent, partitions_ok, smart) ==
    IF usage_answer = "zero_total" THEN Failed("ZeroDivisionError")
    ELSE IF ~partitions_ok THEN Failed("OSError")
    ELSE Collected(
            [k |-> "dict",
             usage |-> [k |-> "dict",
                        used_percent |-> IF usage_answer = "OSError" THEN IntV(0)
                                         ELSE used_percent],
             smart |-> [k |-> "dict", drives |-> smart]])

\* check_windows11_compat(): every helper turns a failure into None / "Unknown"
check_windows11_compat(api_ok) ==
    Collected(
        IF api_ok
        THEN [k |-> "dict", TPM_2_0 |-> BoolV(TRUE), SecureBoot |-> BoolV(TRUE),
              OS_Build |-> StrV("22631")]
        ELSE [k |-> "dict", TPM_2_0 |-> NoneV, SecureBoot |-> NoneV,
              OS_Build |-> StrV("Unknown")])

\* the CPU temperature the sensors give, in tenths; NoneV: no CPU sensor
CpuSensorReadings == {NoneV, FloatV(450), FloatV(850)}

\* get_temperatures(): a failure of psutil.sensors_temperatures reads as None;
\* the mapping has the keys CPU_Temp_C and GPU_Temp_C, and no key cpu_c
get_temperatures(api_ok, cpu_temp) ==
    LET cpu == IF api_ok THEN cpu_temp ELSE NoneV
    IN  Collected(
            [k |-> "dict",
             cpu_c |-> Absent,
             CPU_Temp_C |-> IF cpu.k /= "none" THEN cpu ELSE StrV("Unavailable"),
             GPU_Temp_C |-> StrV("Unavailable")])

\* --server-endpoint (None when not given) and settings.json's server_endpoint
OptsEndpoints == {NoneV, StrV(""), StrV("http://example.com/upload"), StrV("example.com/upload")}

SettingsEndpoints == {Absent, StrV("http://example.com/collect")}

\* opts.server_endpoint if it is not None, else settings.get("server_endpoint")
Endpoint(opts_server_endpoint, settings_server_endpoint) ==
    IF opts_server_endpoint.k /= "none" THEN opts_server_endpoint
    ELSE Get(settings_server_endpoint, NoneV)

\* if endpoint: a str that is not empty
Truthy(v) == v.k = "str" /\ v.s /= ""

\* urllib.request.Request(url): the url has a type when it starts with
\* characters other than "/" and ":" followed by ":"; else ValueError
HasUrlType(url) ==
    \E i \in 2..Len(url) :
        /\ SubSeq(url, i, i) = ":"
        /\ \A j \in 1..(i - 1) : SubSeq(url, j, j) \notin {"/", ":"}

\* _upload_report(endpoint, report): [exc, ok, error]; only urlopen is inside
\* the try, the Request is built before it
_upload_report(endpoint, network_ok) ==
    IF ~HasUrlType(endpoint.s)
    THEN [exc |-> "ValueError", ok |-> FALSE, error |-> NoneV]
    ELSE IF network_ok
    THEN [exc |-> "", ok |-> TRUE, error |-> NoneV]
    ELSE [exc |-> "", ok |-> FALSE, error |-> StrV("<urlopen error timed out>")]

\* the report main builds from what the collectors returned
BuildReport(timestamp, system, storage, windows11, temps) ==
    [key \in {"timestamp", "system", "storage", "windows11", "temps"} |->
        CASE key = "timestamp" -> timestamp
          [] key = "system" -> system
          [] key = "storage" -> storage
          [] key = "windows11" -> windows11
          [] OTHER -> temps]

\* a mapping that lost its own keys to the keys of other
update_replaces(d, other) == other

\* d.update(other): the keys of other are set, the other keys of d stay
update(d, other) ==
    [key \in DOMAIN d \cup DOMAIN other |->
        IF key \in DOMAIN other THEN other[key] ELSE d[key]]

\* d[key] = value
setitem(d, key, value) ==
    [x \in DOMAIN d \cup {key} |-> IF x = key THEN value ELSE d[x]]

\* the keys of a report in the order main inserts them
KeyOrder ==
    <<"timestamp", "system", "storage", "windows11", "temps", "status", "warnings",
      "recommendations", "component_status", "health_score", "upload_status",
      "upload_error">>

\* json.dump(d, f): the members of d as <<key, value>>, in insertion order
json_dump(d) ==
    LET keys == SelectSeq(KeyOrder, LAMBDA key : key \in DOMAIN d)
    IN  [i \in 1..Len(keys) |-> <<keys[i], d[keys[i]]>>]

\* json.load(f): the mapping of the members of the text
json_load(text) ==
    [key \in {text[i][1] : i \in 1..Len(text)} |->
        LET i == CHOOSE i \in 1..Len(text) : text[i][1] = key IN text[i][2]]

\* main's locals before any collector ran
NoScan ==
    [system |-> Absent, storage |-> Absent, windows11 |-> Absent, temps |-> Absent,
     endpoint |-> NoneV, html |-> FALSE, upload_ok |-> NoneV, upload_error |-> NoneV,
     progress |-> -1, emitted |-> <<>>]

NoExc == [type |-> "", stage |-> ""]

\* the stages of main in the order it runs them
Stages ==
    <<"system", "storage", "windows11", "temps", "interpret", "persist", "render",
      "upload", "finish">>

\* no scan is running
MainIdle ==
    /\ stage = "idle"
    /\ scan = NoScan
    /\ scan_report = <<>>
    /\ json_file = <<>>
    /\ failures = {}
    /\ main_exc = NoExc
    /\ _should_stop = FALSE
    /\ stopped_at = ""
    /\ signals = <<>>

---------------------------------------------------------------------------
(* gui.DiagnosticController: the latest report of the log directory *)

\* number of diagnostic_*.json files that appear in the log directory
MaxFiles == 2

\* maxsize of the lru_cache of _get_latest_report_file
LatestFileCacheSize == 32

\* loadLatestReport has not been called since the state last changed
NotLoaded == [called |-> FALSE, result |-> <<>>]

\* the reports in the files: one with the status only, one with warnings too
FileReports ==
    {[key \in {"status"} |-> "Good"],
     [key \in {"status", "warnings"} |->
         IF key = "status" THEN "Critical" ELSE <<"w">>]}

\* report.get(key, default)
DictGet(d, key, default) == IF key \in DOMAIN d THEN d[key] ELSE default

\* the file that is greatest by (st_mtime, name)
NewestFile(files) ==
    CHOOSE f \in files :
        \A g \in files : g.mtime < f.mtime \/ (g.mtime = f.mtime /\ g.name <= f.name)

\* max(log_dir.glob("diagnostic_*.json"), key=(st_mtime, name)): the name of
\* the newest file, 0 (None) when max raises ValueError on no file
LatestName(files) == IF files = {} THEN 0 ELSE NewestFile(files).name

\* the result loadLatestReport builds from a parsed report
Extract(rep) ==
    [key \in {"status", "warnings", "recommendations", "system", "storage"} |->
        CASE key = "status" -> DictGet(rep, "status", "")
          [] key = "warnings" -> DictGet(rep, "warnings", <<>>)
          [] key = "recommendations" -> DictGet(rep, "recommendations", <<>>)
          [] key = "system" -> DictGet(rep, "system", <<>>)
          [] OTHER -> DictGet(rep, "storage", <<>>)]

\* number of workers runScan starts in a run
MaxWorkers == 2

\* QThread.isRunning(): run() has not returned
isRunning(worker) == worker.phase /= "ended"

\* no worker signal has been handled
NoSignal == [signal |-> "", worker |-> 0, newest |-> 0, newest_running |-> FALSE]

\* the slot of a worker signal runs: who sent it, which worker was started
\* last and whether that one is still running
Handling(event, started) ==
    [signal |-> event.signal, worker |-> event.worker, newest |-> Len(started),
     newest_running |-> isRunning(started[Len(started)])]

\* the controller as __init__ leaves it, over an empty log directory
GuiIdle ==
    /\ log_dir = {}
    /\ latest_file_cache = <<>>
    /\ _latest_report_cache = NoneV
    /\ _cache_timestamp = 0
    /\ _worker = 0
    /\ loaded = NotLoaded
    /\ workers = <<>>
    /\ events = <<>>
    /\ loading = FALSE
    /\ handled = NoSignal

---------------------------------------------------------------------------
(* settings.json: diagnostics._load_settings and the controller's            *)
(* loadSetting / updateSetting.  A settings mapping is a function from key   *)
(* to value; the file holds JSON text, or text that is not JSON.             *)

\* number of times settings.json is written or removed in one run
MaxWrites == 3

SettingsKeys == {"server_endpoint", "theme"}

SettingsValues == {"http://localhost", "http://new"}

\* the keys of a settings mapping in the order json.dumps writes them
SettingsKeyOrder == <<"server_endpoint", "theme">>

\* json.dumps(settings): the members as <<key, value>>
settings_dumps(d) ==
    LET keys == SelectSeq(SettingsKeyOrder, LAMBDA key : key \in DOMAIN d)
    IN  [valid |-> TRUE, members |-> [i \in 1..Len(keys) |-> <<keys[i], d[keys[i]]>>]]

\* text that json.loads rejects
NotJson == [valid |-> FALSE, members |-> <<>>]

\* the texts an editor leaves in settings.json
SettingsTexts ==
    {NotJson, settings_dumps(<<>>)}
    \cup {settings_dumps([key \in {"server_endpoint"} |-> v]) : v \in SettingsValues}
    \cup {settings_dumps([key \in SettingsKeys |-> "http://localhost"])}

\* None
NoSettings == [k |-> "none", d |-> <<>>]

\* a dict object
Dict(d) == [k |-> "dict", d |-> d]

\* what one call of the body of _load_settings does, given the module's mtime
\* cache and the file: [result, cache, time]
load_body(file, cache, time) ==
    LET current_time == IF file.exists THEN file.mtime ELSE 0
    IN  IF cache.k /= "none" /\ current_time <= time
        THEN [result |-> cache.d, cache |-> cache, time |-> time]
        ELSE IF file.exists /\ file.text.valid
        THEN [result |-> json_load(file.text.members),
              cache |-> Dict(json_load(file.text.members)), time |-> current_time]
        ELSE [result |-> <<>>, cache |-> Dict(<<>>), time |-> current_time]

\* _load_settings(): lru_cache(maxsize=1) around the body; a hit returns the
\* very dict object an earlier call returned: [result, lru, cache, time]
_load_settings(file, lru, cache, time) ==
    IF lru /= <<>>
    THEN [result |-> lru[1], lru |-> lru, cache |-> cache, time |-> time]
    ELSE LET r == load_body(file, cache, time)
         IN  [result |-> r.result, lru |-> <<r.result>>, cache |-> r.cache,
              time |-> r.time]

\* what settings.json holds right now: its mapping, {} when it is missing or
\* not JSON
OnDisk(file) ==
    IF file.exists /\ file.text.valid THEN json_load(file.text.members) ELSE <<>>

\* no settings call has just returned
NoSettingsCall ==
    [op |-> "none", key |-> "", value |-> "", ok |-> TRUE, result |-> <<>>,
     got |-> <<>>, follows |-> <<>>, disk_before |-> <<>>, loaded_before |-> <<>>,
     error |-> FALSE]

\* the process has imported diagnostics and made no settings call; there is no
\* settings.json
SettingsIdle ==
    /\ settings_file = [exists |-> FALSE, mtime |-> 0, text |-> NotJson]
    /\ load_settings_cache = <<>>
    /\ _settings_cache = NoSettings
    /\ _settings_cache_time = 0
    /\ last_call = NoSettingsCall

---------------------------------------------------------------------------
(* report_renderer.export_latest_report.  A text is a sequence of tokens:   *)
(* fmt is spelt letter by letter, an error message word by word.  A path    *)
(* of output_dir is [stem, ext].                                            *)

\* the latest modification time a report of the log directory can have
MaxMtime == 2

\* the stems of the diagnostic_*.json files of the log directory
Stems == {"diagnostic_1", "diagnostic_2"}

\* str.lower() that leaves every letter as it is
str_lower_unchanged(s) == s

\* str.lower()
str_lower(s) ==
    [i \in 1..Len(s) |->
        CASE s[i] = "P" -> "p"
          [] s[i] = "D" -> "d"
          [] s[i] = "F" -> "f"
          [] s[i] = "No" -> "no"
          [] s[i] = "Permission" -> "permission"
          [] s[i] = "Package" -> "package"
          [] OTHER -> s[i]]

\* the fmt arguments of a call
Fmts ==
    {<<"h", "t", "m", "l">>, <<"p", "d", "f">>, <<"P", "D", "F">>, <<"P", "d", "f">>,
     <<"t", "x", "t">>, <<>>}

\* pdfkit: not importable ("none"), or what pdfkit.from_string did
PdfkitAnswers ==
    {[k |-> "none", msg |-> <<>>],
     [k |-> "written", msg |-> <<>>],
     [k |-> "OSError", msg |-> <<"No", "wkhtmltopdf", "executable", "found">>],
     [k |-> "OSError", msg |-> <<"Permission", "denied">>]}

NoPath == [stem |-> "", ext |-> ""]

\* the renderer wrote out and returned str(out)
Rendered(out, files) ==
    [k |-> "return", exc |-> "", path |-> out, files |-> files \cup {out}]

\* the renderer raised before writing anything
RenderRaised(type, files) ==
    [k |-> "raise", exc |-> type, path |-> NoPath, files |-> files]

\* render_html_report; template_found: _env.get_template found template_name
render_html_report(template_found, out, files) ==
    IF ~template_found THEN RenderRaised("TemplateNotFound", files)
    ELSE Rendered(out, files)

\* render_pdf_report
render_pdf_report(template_found, pdfkit, out, files) ==
    IF ~template_found THEN RenderRaised("TemplateNotFound", files)
    ELSE IF pdfkit.k = "none" THEN Rendered(out, files)
    ELSE IF pdfkit.k = "OSError"
         THEN IF Contains(str_lower(pdfkit.msg), <<"wkhtmltopdf">>)
              THEN Rendered(out, files)
              ELSE RenderRaised("OSError", files)
    ELSE Rendered(out, files)

\* max(json_files, key=lambda p: p.stat().st_mtime): the first of the greatest
LatestJson(json_files) ==
    LET i == CHOOSE i \in 1..Len(json_files) :
                 /\ \A j \in 1..Len(json_files) : json_files[j].mtime <= json_files[i].mtime
                 /\ \A j \in 1..(i - 1) : json_files[j].mtime < json_files[i].mtime
    IN  json_files[i]

\* export_latest_report(output_dir, log_dir, template_name, fmt): how it ends
\* and what output_dir is afterwards
export_latest_report(dir, json_files, template_found, fmt, pdfkit) ==
    IF json_files = <<>>
    THEN [out |-> RenderRaised("FileNotFoundError", dir.files), exists |-> dir.exists]
    ELSE LET base_name == LatestJson(json_files).stem
         IN  [out |-> IF str_lower(fmt) = <<"p", "d", "f">>
                      THEN render_pdf_report(template_found, pdfkit,
                                             [stem |-> base_name, ext |-> "pdf"], dir.files)
                      ELSE render_html_report(template_found,
                                              [stem |-> base_name, ext |-> "html"], dir.files),
              exists |-> TRUE]

\* no call of export_latest_report has ended
NoExport ==
    [called |-> FALSE, fmt |-> <<>>, template_found |-> TRUE,
     pdfkit |-> [k |-> "none", msg |-> <<>>], k |-> "", exc |-> "", path |-> NoPath,
     json_files |-> <<>>, files_before |-> {}]

\* an empty log directory, no output directory
ExportIdle ==
    /\ export_logs = <<>>
    /\ output_dir = [exists |-> FALSE, files |-> {}]
    /\ exported = NoExport

---------------------------------------------------------------------------
(* utils/system_metrics.SystemMetrics.  Sizes are read in units of 1e8      *)
(* bytes, so that round(x / 1e9, 2) is the reading itself as a float in     *)
(* tenths; sensor temperatures are read in tenths, which round(cpu, 1)      *)
(* leaves as they are.  Times are whole seconds.                            *)

\* the latest value of time.time() in a run
MaxClock == 6

\* _gpu_metrics keeps its answer for this many seconds
GpuCacheSeconds == 5

\* None in a field of the instance
Unset == [k |-> "none", d |-> <<>>]

\* a metric method raised
MetricRaised(type) == [exc |-> type, value |-> <<>>]

\* the __hash__ that @dataclass(eq, frozen, unsafe_hash) gives a class
dataclass_hash(eq, frozen, unsafe_hash) ==
    IF unsafe_hash THEN "generated"
    ELSE IF ~eq THEN "inherited"
    ELSE IF frozen THEN "generated"
    ELSE "none"

\* SystemMetrics is declared with a bare @dataclass
SystemMetricsHash == dataclass_hash(TRUE, FALSE, FALSE)

\* what psutil answers to one call of collect
PsutilAnswers ==
    [logical : {IntV(8)},
     physical : {NoneV, IntV(4)},
     cpu_percent : {FloatV(125)},
     freq : {NoneV, IntV(3500)},
     vm : {[total |-> FloatV(160), percent |-> FloatV(420), available |-> FloatV(90)]},
     usage : {[total |-> FloatV(5120), percent |-> FloatV(500), free |-> FloatV(2560)]},
     net : {[bytes_sent |-> 1000, bytes_recv |-> 2000],
            [bytes_sent |-> 3000, bytes_recv |-> 2000]},
     sensors : {[exc |-> "", entries |-> <<>>],
                [exc |-> "", entries |-> <<[label |-> <<>>, current |-> FloatV(300)],
                                           [label |-> <<"Package", "id", "0">>,
                                            current |-> FloatV(451)]>>],
                [exc |-> "", entries |-> <<[label |-> <<"fan">>, current |-> FloatV(300)]>>],
                [exc |-> "AttributeError", entries |-> <<>>]}]

\* the GPU libraries of the machine: NVML answers, only WMI answers, neither
GpuAnswers ==
    {[k |-> "nvml", usage |-> IntV(30)], [k |-> "wmi", usage |-> IntV(0)],
     [k |-> "none", usage |-> IntV(0)]}

\* _get_system_root: the lru_cache wrapper hashes self before the body runs
_get_system_root ==
    IF SystemMetricsHash = "none" THEN MetricRaised("TypeError")
    ELSE Collected(StrV("/"))

\* _collect_gpu_metrics
_collect_gpu_metrics(gpu) ==
    IF gpu.k = "nvml"
    THEN [name |-> StrV("GPU"), usage_percent |-> gpu.usage, temperature_c |-> IntV(60)]
    ELSE IF gpu.k = "wmi"
    THEN [name |-> StrV("GPU"), usage_percent |-> StrV("Unavailable"),
          temperature_c |-> StrV("Unavailable")]
    ELSE [name |-> StrV("Unavailable"), usage_percent |-> StrV("Unavailable"),
          temperature_c |-> StrV("Unavailable")]

\* _gpu_metrics
_gpu_metrics(self, now, gpu) ==
    IF self._gpu_info_cache.k /= "none" /\ now - self._gpu_cache_time < GpuCacheSeconds
    THEN [result |-> self._gpu_info_cache.d, self |-> self]
    ELSE LET result == _collect_gpu_metrics(gpu)
         IN  [result |-> result,
              self |-> [self EXCEPT !._gpu_info_cache = Dict(result),
                                    !._gpu_cache_time = now]]

\* _cpu_metrics
_cpu_metrics(self, ps) ==
    LET cache == IF self._cpu_info_cache.k = "none"
                 THEN [logical_cores |-> ps.logical,
                       physical_cores |-> IF ps.physical.k = "none" \/ ps.physical.n = 0
                                          THEN IntV(0) ELSE ps.physical]
                 ELSE self._cpu_info_cache.d
    IN  [result |-> [logical_cores |-> cache.logical_cores,
                     physical_cores |-> cache.physical_cores,
                     usage_percent |-> ps.cpu_percent,
                     freq_mhz |-> IF ps.freq.k /= "none" THEN ps.freq ELSE IntV(0)],
         self |-> [self EXCEPT !._cpu_info_cache = Dict(cache)]]

\* _ram_metrics
_ram_metrics(ps) ==
    [total_gb |-> ps.vm.total, used_percent |-> ps.vm.percent,
     available_gb |-> ps.vm.available]

\* _disk_metrics
_disk_metrics(ps) ==
    LET root == _get_system_root
    IN  IF root.exc /= "" THEN MetricRaised(root.exc)
        ELSE Collected([total_gb |-> ps.usage.total, used_percent |-> ps.usage.percent,
                        free_gb |-> ps.usage.free])

\* int(x / y) for y > 0: the quotient cut towards zero
IntDiv(x, y) == IF x >= 0 THEN x \div y ELSE -((-x) \div y)

\* _network_metrics; an elapsed time of 0 s counts as 1e-3 s
_network_metrics(self, now, ps) ==
    IF self._last_net.k = "none"
    THEN [result |-> [bytes_sent |-> ps.net.bytes_sent, bytes_recv |-> ps.net.bytes_recv,
                      sent_rate_bps |-> 0, recv_rate_bps |-> 0],
          self |-> [self EXCEPT !._last_net = Dict(ps.net), !._last_time = now]]
    ELSE LET sent == ps.net.bytes_sent - self._last_net.d.bytes_sent
             recv == ps.net.bytes_recv - self._last_net.d.bytes_recv
             rate(diff) == IF now - self._last_time <= 0 THEN 1000 * diff
                           ELSE IntDiv(diff, now - self._last_time)
         IN  [result |-> [bytes_sent |-> ps.net.bytes_sent,
                          bytes_recv |-> ps.net.bytes_recv,
                          sent_rate_bps |-> rate(sent), recv_rate_bps |-> rate(recv)],
              self |-> [self EXCEPT !._last_net = Dict(ps.net), !._last_time = now]]

\* the entry of a CPU sensor: its lowered label has "package" or "cpu"
IsCpuSensor(entry) ==
    \/ Contains(str_lower(entry.label), <<"package">>)
    \/ Contains(str_lower(entry.label), <<"cpu">>)

\* _temperatures: the first CPU sensor, or "Unavailable"
_temperatures(ps) ==
    LET temps == IF ps.sensors.exc /= "" THEN <<>> ELSE ps.sensors.entries
        found == {i \in 1..Len(temps) : IsCpuSensor(temps[i])}
    IN  [cpu_c |-> IF found = {} THEN StrV("Unavailable")
                   ELSE temps[CHOOSE i \in found : \A j \in found : i <= j].current]

\* collect: the entries of the mapping are evaluated in the order written
collect(self, now, ps, gpu) ==
    LET cpu == _cpu_metrics(self, ps)
        g == _gpu_metrics(cpu.self, now, gpu)
        ram == _ram_metrics(ps)
        disk == _disk_metrics(ps)
    IN  IF disk.exc /= "" THEN [out |-> MetricRaised(disk.exc), self |-> g.self]
        ELSE LET network == _network_metrics(g.self, now, ps)
             IN  [out |-> Collected([timestamp |-> now, cpu |-> cpu.result,
                                     gpu |-> g.result, ram |-> ram,
                                     disk |-> disk.value, network |-> network.result,
                                     temps |-> _temperatures(ps)]),
                  self |-> network.self]

\* no call of collect has ended
NoCollect == [called |-> FALSE, out |-> MetricRaised(""), cpu_sensor |-> FALSE]

\* a SystemMetrics instance as its constructor leaves it
MetricsIdle ==
    /\ clock = 0
    /\ metrics = [_last_net |-> Unset, _last_time |-> 0, _gpu_info_cache |-> Unset,
                  _gpu_cache_time |-> 0, _cpu_info_cache |-> Unset]
    /\ collect_call = NoCollect

---------------------------------------------------------------------------
(* The state machine *)

Init ==
    /\ report \in Reports
    /\ pc = "call"
    /\ exc = ""
    /\ summary = NoSummary
    /\ status_cache = <<>>
    /\ score_cache = <<>>
    /\ history = {}
    /\ ncalls = 1
    /\ MainIdle
    /\ GuiIdle
    /\ SettingsIdle
    /\ ExportIdle
    /\ MetricsIdle

InitCalls ==
    /\ report \in CallReports
    /\ pc = "call"
    /\ exc = ""
    /\ summary = NoSummary
    /\ status_cache = <<>>
    /\ score_cache = <<>>
    /\ history = {}
    /\ ncalls = 1
    /\ MainIdle
    /\ GuiIdle
    /\ SettingsIdle
    /\ ExportIdle
    /\ MetricsIdle

\* interpret_report(report) runs to its return or to the exception it raises
Interpret ==
    /\ pc = "call"
    /\ LET r == interpret_report(report, status_cache, score_cache)
       IN  /\ pc' = IF r.exc = "" THEN "return" ELSE "raise"
           /\ exc' = r.exc
           /\ summary' = r.summary
           /\ status_cache' = r.status_cache
           /\ score_cache' = r.score_cache
           /\ history' = history \cup {<<report, [exc |-> r.exc, summary |-> r.summary]>>}
    /\ UNCHANGED <<report, ncalls>>
    /\ UNCHANGED main_vars
    /\ UNCHANGED gui_vars
    /\ UNCHANGED settings_vars
    /\ UNCHANGED export_vars
    /\ UNCHANGED metrics_vars

\* the caller calls interpret_report again, with report r, in the same process
NextCall(r) ==
    /\ pc /= "call"
    /\ ncalls < MaxCalls
    /\ report' = r
    /\ pc' = "call"
    /\ exc' = ""
    /\ summary' = NoSummary
    /\ ncalls' = ncalls + 1
    /\ UNCHANGED <<status_cache, score_cache, history>>
    /\ UNCHANGED main_vars
    /\ UNCHANGED gui_vars
    /\ UNCHANGED settings_vars
    /\ UNCHANGED export_vars
    /\ UNCHANGED metrics_vars

Next == Interpret

Spec == Init /\ [][Next]_vars

NextCalls == Interpret \/ \E r \in CallReports : NextCall(r)

SpecCalls == InitCalls /\ [][NextCalls]_vars

\* the test module imports the interpreter and calls it on one of its reports
InitTests ==
    /\ report \in TestReports
    /\ pc = "call"
    /\ exc = ""
    /\ summary = NoSummary
    /\ status_cache = <<>>
    /\ score_cache = <<>>
    /\ history = {}
    /\ ncalls = 1
    /\ MainIdle
    /\ GuiIdle
    /\ SettingsIdle
    /\ ExportIdle
    /\ MetricsIdle

SpecTests == InitTests /\ [][Next]_vars

---------------------------------------------------------------------------
(* One scan: DiagnosticWorker.run calls diagnostics.main, which runs its     *)
(* stages in order; stop() may be called on the worker at any moment.        *)

\* interpret_report has not been called
NoCall ==
    /\ report = [temps |-> [k |-> "absent", cpu_c |-> Absent],
                 storage |-> [k |-> "absent", usage |-> AbsentUsage, smart |-> AbsentSmart],
                 system |-> [k |-> "absent", RAM_GB |-> Absent, Cores |-> Absent]]
    /\ pc = "idle"
    /\ exc = ""
    /\ summary = NoSummary
    /\ status_cache = <<>>
    /\ score_cache = <<>>
    /\ history = {}
    /\ ncalls = 0

\* main has parsed its arguments and read the settings
InitScan ==
    /\ NoCall
    /\ stage = "system"
    /\ \E o \in OptsEndpoints, e \in SettingsEndpoints :
          scan = [NoScan EXCEPT !.endpoint = Endpoint(o, e)]
    /\ scan_report = <<>>
    /\ json_file = <<>>
    /\ failures = {}
    /\ main_exc = NoExc
    /\ _should_stop = FALSE
    /\ stopped_at = ""
    /\ signals = <<>>
    /\ GuiIdle
    /\ SettingsIdle
    /\ ExportIdle
    /\ MetricsIdle

\* emit(progress, message) through the worker's callback cb, which does
\* nothing once the stop flag is set: the percentage the GUI shows afterwards
emit(percent) == IF _should_stop THEN scan.progress ELSE percent

\* main's emit(progress, message) that calls nothing
main_emit_silent(s, percent) == [s EXCEPT !.progress = emit(percent)]

\* main's emit(progress, message): progress_callback is called with progress.
\* The entry keeps what main had done by then: the collectors that ran,
\* whether the JSON file was written, whether _upload_report answered
main_emit(s, percent) ==
    [s EXCEPT !.progress = emit(percent),
              !.emitted = Append(@, [value |-> percent,
                                     ran |-> {c \in {"system", "storage", "windows11",
                                                     "temps"} : s[c] /= Absent},
                                     written |-> json_file /= <<>>,
                                     uploaded |-> s.upload_ok.k /= "none"])]

\* an exception leaves main at the stage that was running, its locals as they are
MainRaises(type, locals) ==
    /\ stage' = "raised"
    /\ main_exc' = [type |-> type, stage |-> stage]
    /\ scan' = locals

\* emit(0.0, ...); system = get_system_info()
CollectSystem ==
    /\ stage = "system"
    /\ \E api_ok \in BOOLEAN, reading \in SystemReadings :
          LET r == get_system_info(api_ok, reading)
          IN  /\ failures' = IF api_ok THEN failures ELSE failures \cup {"system"}
              /\ IF r.exc /= "" THEN MainRaises(r.exc, main_emit(scan, 0))
                 ELSE /\ stage' = "storage"
                      /\ scan' = [main_emit(scan, 0) EXCEPT !.system = r.value]
                      /\ UNCHANGED main_exc
    /\ UNCHANGED <<interp_vars, scan_report, json_file, _should_stop, stopped_at, signals>>
    /\ UNCHANGED gui_vars
    /\ UNCHANGED settings_vars
    /\ UNCHANGED export_vars
    /\ UNCHANGED metrics_vars

\* emit(0.25, ...); storage = check_disk_health()
CollectStorage ==
    /\ stage = "storage"
    /\ \E usage_answer \in DiskUsageAnswers, used_percent \in UsedPercentReadings,
          partitions_ok \in BOOLEAN, smart \in SmartReadings :
          LET r == check_disk_health(usage_answer, used_percent, partitions_ok, smart)
          IN  /\ failures' = IF usage_answer = "ok" /\ partitions_ok THEN failures
                             ELSE failures \cup {"storage"}
              /\ IF r.exc /= "" THEN MainRaises(r.exc, main_emit(scan, 25))
                 ELSE /\ stage' = "windows11"
                      /\ scan' = [main_emit(scan, 25) EXCEPT !.storage = r.value]
                      /\ UNCHANGED main_exc
    /\ UNCHANGED <<interp_vars, scan_report, json_file, _should_stop, stopped_at, signals>>
    /\ UNCHANGED gui_vars
    /\ UNCHANGED settings_vars
    /\ UNCHANGED export_vars
    /\ UNCHANGED metrics_vars

\* emit(0.5, ...); windows11 = check_windows11_compat()
CollectWindows11 ==
    /\ stage = "windows11"
    /\ \E api_ok \in BOOLEAN :
          LET r == check_windows11_compat(api_ok)
          IN  /\ failures' = IF api_ok THEN failures ELSE failures \cup {"windows11"}
              /\ stage' = "temps"
              /\ scan' = [main_emit(scan, 50) EXCEPT !.windows11 = r.value]
    /\ UNCHANGED <<interp_vars, scan_report, json_file, main_exc, _should_stop,
                   stopped_at, signals>>
    /\ UNCHANGED gui_vars
    /\ UNCHANGED settings_vars
    /\ UNCHANGED export_vars
    /\ UNCHANGED metrics_vars

\* emit(0.75, ...); temps = get_temperatures()
CollectTemps ==
    /\ stage = "temps"
    /\ \E api_ok \in BOOLEAN, cpu_temp \in CpuSensorReadings :
          LET r == get_temperatures(api_ok, cpu_temp)
          IN  /\ failures' = IF api_ok THEN failures ELSE failures \cup {"temps"}
              /\ stage' = "interpret"
              /\ scan' = [main_emit(scan, 75) EXCEPT !.temps = r.value]
    /\ UNCHANGED <<interp_vars, scan_report, json_file, main_exc, _should_stop,
                   stopped_at, signals>>
    /\ UNCHANGED gui_vars
    /\ UNCHANGED settings_vars
    /\ UNCHANGED export_vars
    /\ UNCHANGED metrics_vars

\* report = {...}; emit(0.9, ...); summary = interpret_report(report);
\* report.update(summary)
InterpretStage ==
    /\ stage = "interpret"
    /\ LET built == BuildReport("2024-01-01T00:00:00", scan.system, scan.storage,
                                scan.windows11, scan.temps)
           arg == [temps |-> scan.temps, storage |-> scan.storage, system |-> scan.system]
           r == interpret_report(arg, status_cache, score_cache)
       IN  /\ report' = arg
           /\ exc' = r.exc
           /\ summary' = r.summary
           /\ status_cache' = r.status_cache
           /\ score_cache' = r.score_cache
           /\ history' = history \cup {<<arg, [exc |-> r.exc, summary |-> r.summary]>>}
           /\ ncalls' = ncalls + 1
           /\ IF r.exc /= ""
              THEN /\ pc' = "raise"
                   /\ scan_report' = built
                   /\ MainRaises(r.exc, main_emit(scan, 90))
              ELSE /\ pc' = "return"
                   /\ scan_report' = update(built, r.summary)
                   /\ stage' = "persist"
                   /\ scan' = main_emit(scan, 90)
                   /\ UNCHANGED main_exc
    /\ UNCHANGED <<json_file, failures, _should_stop, stopped_at, signals>>
    /\ UNCHANGED gui_vars
    /\ UNCHANGED settings_vars
    /\ UNCHANGED export_vars
    /\ UNCHANGED metrics_vars

\* os.makedirs(log_dir); json.dump(report, f): the file system may refuse
Persist ==
    /\ stage = "persist"
    /\ \E fs_ok \in BOOLEAN :
          IF fs_ok
          THEN /\ json_file' = json_dump(scan_report)
               /\ stage' = "render"
               /\ UNCHANGED <<scan, main_exc>>
          ELSE /\ MainRaises("OSError", scan)
               /\ UNCHANGED json_file
    /\ UNCHANGED <<interp_vars, scan_report, failures, _should_stop, stopped_at, signals>>
    /\ UNCHANGED gui_vars
    /\ UNCHANGED settings_vars
    /\ UNCHANGED export_vars
    /\ UNCHANGED metrics_vars

\* render_html_report(report, html_path), best effort: a failure is swallowed
Render ==
    /\ stage = "render"
    /\ \E rendered \in BOOLEAN : scan' = [scan EXCEPT !.html = rendered]
    /\ stage' = "upload"
    /\ UNCHANGED <<interp_vars, scan_report, json_file, failures, main_exc, _should_stop,
                   stopped_at, signals>>
    /\ UNCHANGED gui_vars
    /\ UNCHANGED settings_vars
    /\ UNCHANGED export_vars
    /\ UNCHANGED metrics_vars

\* if endpoint: emit(0.95, ...); upload_ok, upload_error = _upload_report(...);
\* emit(0.97, ...)
Upload ==
    /\ stage = "upload"
    /\ IF Truthy(scan.endpoint)
       THEN \E network_ok \in BOOLEAN :
               LET r == _upload_report(scan.endpoint, network_ok)
               IN  IF r.exc /= "" THEN MainRaises(r.exc, main_emit(scan, 95))
                   ELSE /\ stage' = "finish"
                        /\ scan' = main_emit([main_emit(scan, 95) EXCEPT
                                                 !.upload_ok = BoolV(r.ok),
                                                 !.upload_error = r.error], 97)
                        /\ UNCHANGED main_exc
       ELSE /\ stage' = "finish"
            /\ UNCHANGED <<scan, main_exc>>
    /\ UNCHANGED <<interp_vars, scan_report, json_file, failures, _should_stop,
                   stopped_at, signals>>
    /\ UNCHANGED gui_vars
    /\ UNCHANGED settings_vars
    /\ UNCHANGED export_vars
    /\ UNCHANGED metrics_vars

\* report["upload_status"] = ...; report["upload_error"] = upload_error
WithUploadStatus(d, endpoint, upload_ok, upload_error) ==
    IF Truthy(endpoint)
    THEN LET ok == upload_ok.k = "bool" /\ upload_ok.n = 10
             marked == setitem(d, "upload_status", IF ok THEN "success" ELSE "failed")
         IN  IF ~ok /\ upload_error.k /= "none"
             THEN setitem(marked, "upload_error", upload_error.s)
             ELSE marked
    ELSE setitem(d, "upload_status", "disabled")

\* emit(1.0, ...); the upload keys are set; return report
Finish ==
    /\ stage = "finish"
    /\ scan_report' = WithUploadStatus(scan_report, scan.endpoint, scan.upload_ok,
                                       scan.upload_error)
    /\ scan' = main_emit(scan, 100)
    /\ stage' = "returned"
    /\ UNCHANGED <<interp_vars, json_file, failures, main_exc, _should_stop, stopped_at,
                   signals>>
    /\ UNCHANGED gui_vars
    /\ UNCHANGED settings_vars
    /\ UNCHANGED export_vars
    /\ UNCHANGED metrics_vars

\* DiagnosticWorker.run after main: finished(report) or error(str(exc)),
\* neither once the stop flag is set
WorkerDone ==
    /\ stage \in {"returned", "raised"}
    /\ signals' =
          IF _should_stop THEN signals
          ELSE IF stage = "returned" THEN Append(signals, "finished")
          ELSE Append(signals, "error")
    /\ stage' = "done"
    /\ UNCHANGED <<interp_vars, scan, scan_report, json_file, failures, main_exc,
                   _should_stop, stopped_at>>
    /\ UNCHANGED gui_vars
    /\ UNCHANGED settings_vars
    /\ UNCHANGED export_vars
    /\ UNCHANGED metrics_vars

\* DiagnosticWorker.stop(), called from the GUI thread while the worker runs
stop ==
    /\ stage \notin {"idle", "done"}
    /\ ~_should_stop
    /\ _should_stop' = TRUE
    /\ stopped_at' = stage
    /\ UNCHANGED <<interp_vars, stage, scan, scan_report, json_file, failures, main_exc,
                   signals>>
    /\ UNCHANGED gui_vars
    /\ UNCHANGED settings_vars
    /\ UNCHANGED export_vars
    /\ UNCHANGED metrics_vars

NextScan ==
    \/ CollectSystem
    \/ CollectStorage
    \/ CollectWindows11
    \/ CollectTemps
    \/ InterpretStage
    \/ Persist
    \/ Render
    \/ Upload
    \/ Finish
    \/ WorkerDone
    \/ stop

SpecScan == InitScan /\ [][NextScan]_vars

---------------------------------------------------------------------------
(* The controller over a log directory in which report files appear *)

InitController ==
    /\ NoCall
    /\ MainIdle
    /\ GuiIdle
    /\ SettingsIdle
    /\ ExportIdle
    /\ MetricsIdle

\* a scan (the worker's, a command-line run's) writes diagnostic_<name>.json;
\* the clock does not run backwards
FileAppears ==
    /\ Cardinality(log_dir) < MaxFiles
    /\ \E name \in (1..MaxFiles) \ {f.name : f \in log_dir}, rep \in FileReports,
          tick \in {0, 1} :
          LET last == IF log_dir = {} THEN 1 ELSE NewestFile(log_dir).mtime
          IN  /\ last + tick <= MaxFiles
              /\ log_dir' = log_dir \cup
                    {[name |-> name, mtime |-> last + tick, text |-> json_dump(rep)]}
    /\ loaded' = NotLoaded
    /\ UNCHANGED <<latest_file_cache, _latest_report_cache, _cache_timestamp, _worker>>
    /\ UNCHANGED <<workers, events, loading, handled>>
    /\ UNCHANGED <<interp_vars, main_vars>>
    /\ UNCHANGED settings_vars
    /\ UNCHANGED export_vars
    /\ UNCHANGED metrics_vars

\* runScan(): a worker that is still running is told to stop and waited for
\* during 1 s, in which its run() ends without a signal or does not end;
\* loading(True); a new worker is started, the report cache is invalidated and
\* the lru_cache of the latest file cleared
runScan ==
    /\ Len(workers) < MaxWorkers
    /\ \E ended_in_time \in BOOLEAN :
          LET waited ==
                  IF _worker /= 0 /\ isRunning(workers[_worker])
                  THEN [workers EXCEPT ![_worker] =
                           [phase |-> IF ended_in_time THEN "ended" ELSE @.phase,
                            _should_stop |-> TRUE]]
                  ELSE workers
          IN  /\ workers' = Append(waited, [phase |-> "main", _should_stop |-> FALSE])
              /\ _worker' = Len(workers) + 1
    /\ loading' = TRUE
    /\ _latest_report_cache' = NoneV
    /\ _cache_timestamp' = 0
    /\ latest_file_cache' = <<>>
    /\ loaded' = NotLoaded
    /\ UNCHANGED <<log_dir, events, handled>>
    /\ UNCHANGED <<interp_vars, main_vars>>
    /\ UNCHANGED settings_vars
    /\ UNCHANGED export_vars
    /\ UNCHANGED metrics_vars

\* DiagnosticWorker.run: diagnostics.main returns the report or raises
WorkerMainEnds ==
    /\ \E w \in 1..Len(workers), outcome \in {"returned", "raised"} :
          /\ workers[w].phase = "main"
          /\ workers' = [workers EXCEPT ![w].phase = outcome]
    /\ UNCHANGED <<log_dir, latest_file_cache, _latest_report_cache, _cache_timestamp,
                   _worker, loaded, events, loading, handled>>
    /\ UNCHANGED <<interp_vars, main_vars>>
    /\ UNCHANGED settings_vars
    /\ UNCHANGED export_vars
    /\ UNCHANGED metrics_vars

\* DiagnosticWorker.run after main: unless the stop flag is set, finished or
\* error is emitted, which queues the controller's slot in the GUI thread
WorkerRunEnds ==
    /\ \E w \in 1..Len(workers) :
          /\ workers[w].phase \in {"returned", "raised"}
          /\ workers' = [workers EXCEPT ![w].phase = "ended"]
          /\ events' =
                IF workers[w]._should_stop THEN events
                ELSE Append(events,
                            [signal |-> IF workers[w].phase = "returned" THEN "finished"
                                        ELSE "error",
                             worker |-> w])
    /\ UNCHANGED <<log_dir, latest_file_cache, _latest_report_cache, _cache_timestamp,
                   _worker, loaded, loading, handled>>
    /\ UNCHANGED <<interp_vars, main_vars>>
    /\ UNCHANGED settings_vars
    /\ UNCHANGED export_vars
    /\ UNCHANGED metrics_vars

\* a queued finished signal reaches _on_worker_finished: completed,
\* loading(False), _worker = None
_on_worker_finished ==
    /\ events /= <<>>
    /\ Head(events).signal = "finished"
    /\ events' = Tail(events)
    /\ handled' = Handling(Head(events), workers)
    /\ loading' = FALSE
    /\ _worker' = 0
    /\ loaded' = NotLoaded
    /\ UNCHANGED <<log_dir, latest_file_cache, _latest_report_cache, _cache_timestamp,
                   workers>>
    /\ UNCHANGED <<interp_vars, main_vars>>
    /\ UNCHANGED settings_vars
    /\ UNCHANGED export_vars
    /\ UNCHANGED metrics_vars

\* a queued error signal reaches _on_worker_error: error, loading(False),
\* _worker = None
_on_worker_error ==
    /\ events /= <<>>
    /\ Head(events).signal = "error"
    /\ events' = Tail(events)
    /\ handled' = Handling(Head(events), workers)
    /\ loading' = FALSE
    /\ _worker' = 0
    /\ loaded' = NotLoaded
    /\ UNCHANGED <<log_dir, latest_file_cache, _latest_report_cache, _cache_timestamp,
                   workers>>
    /\ UNCHANGED <<interp_vars, main_vars>>
    /\ UNCHANGED settings_vars
    /\ UNCHANGED export_vars
    /\ UNCHANGED metrics_vars

\* the 30 s timer: the report cache is dropped, the lru_cache is not
_invalidate_cache ==
    /\ _latest_report_cache /= NoneV
    /\ _latest_report_cache' = NoneV
    /\ _cache_timestamp' = 0
    /\ loaded' = NotLoaded
    /\ UNCHANGED <<log_dir, latest_file_cache, _worker, workers, events, loading, handled>>
    /\ UNCHANGED <<interp_vars, main_vars>>
    /\ UNCHANGED settings_vars
    /\ UNCHANGED export_vars
    /\ UNCHANGED metrics_vars

\* loadLatestReport(): the path comes from the lru_cache of
\* _get_latest_report_file, the parsed result from _latest_report_cache when
\* the file's st_mtime is not later than _cache_timestamp
loadLatestReport ==
    /\ LET looked == lru_cache(latest_file_cache, LatestFileCacheSize, <<"self">>,
                               LatestName(log_dir))
           latest_file == looked.result
       IN  /\ latest_file_cache' = looked.cache
           /\ IF latest_file = 0
              THEN /\ loaded' = [called |-> TRUE, result |-> <<>>]
                   /\ UNCHANGED <<_latest_report_cache, _cache_timestamp>>
              ELSE LET f == CHOOSE f \in log_dir : f.name = latest_file
                       current_mtime == f.mtime
                   IN  IF _latest_report_cache /= NoneV
                          /\ current_mtime <= _cache_timestamp
                       THEN /\ loaded' = [called |-> TRUE,
                                          result |-> _latest_report_cache]
                            /\ UNCHANGED <<_latest_report_cache, _cache_timestamp>>
                       ELSE LET result == Extract(json_load(f.text))
                            IN  /\ _latest_report_cache' = result
                                /\ _cache_timestamp' = current_mtime
                                /\ loaded' = [called |-> TRUE, result |-> result]
    /\ UNCHANGED <<log_dir, _worker, workers, events, loading, handled>>
    /\ UNCHANGED <<interp_vars, main_vars>>
    /\ UNCHANGED settings_vars
    /\ UNCHANGED export_vars
    /\ UNCHANGED metrics_vars

NextController ==
    \/ FileAppears
    \/ runScan
    \/ WorkerMainEnds
    \/ WorkerRunEnds
    \/ _on_worker_finished
    \/ _on_worker_error
    \/ _invalidate_cache
    \/ loadLatestReport

SpecController == InitController /\ [][NextController]_vars

---------------------------------------------------------------------------
(* settings.json over a run: an editor or another process rewrites or       *)
(* removes the file, the process calls _load_settings, the GUI calls        *)
(* loadSetting and updateSetting.                                            *)

InitSettings ==
    /\ NoCall
    /\ MainIdle
    /\ GuiIdle
    /\ SettingsIdle
    /\ ExportIdle
    /\ MetricsIdle

\* settings.json is written from outside the process; its mtime moves on
EditSettingsFile ==
    /\ settings_file.mtime < MaxWrites
    /\ \E text \in SettingsTexts :
          settings_file' = [exists |-> TRUE, mtime |-> settings_file.mtime + 1,
                            text |-> text]
    /\ last_call' = NoSettingsCall
    /\ UNCHANGED <<load_settings_cache, _settings_cache, _settings_cache_time>>
    /\ UNCHANGED <<interp_vars, main_vars, gui_vars>>
    /\ UNCHANGED export_vars
    /\ UNCHANGED metrics_vars

\* settings.json is removed
RemoveSettingsFile ==
    /\ settings_file.exists
    /\ settings_file' = [settings_file EXCEPT !.exists = FALSE, !.text = NotJson]
    /\ last_call' = NoSettingsCall
    /\ UNCHANGED <<load_settings_cache, _settings_cache, _settings_cache_time>>
    /\ UNCHANGED <<interp_vars, main_vars, gui_vars>>
    /\ UNCHANGED export_vars
    /\ UNCHANGED metrics_vars

\* settings = _load_settings(), as main and runScan call it
LoadSettings ==
    /\ LET r == _load_settings(settings_file, load_settings_cache, _settings_cache,
                               _settings_cache_time)
       IN  /\ load_settings_cache' = r.lru
           /\ _settings_cache' = r.cache
           /\ _settings_cache_time' = r.time
           /\ last_call' = [NoSettingsCall EXCEPT !.op = "_load_settings",
                                                  !.result = r.result]
    /\ UNCHANGED settings_file
    /\ UNCHANGED <<interp_vars, main_vars, gui_vars>>
    /\ UNCHANGED export_vars
    /\ UNCHANGED metrics_vars

\* loadSetting(key): _load_settings().get(key), <<>> standing for None
loadSetting(key) ==
    /\ LET r == _load_settings(settings_file, load_settings_cache, _settings_cache,
                               _settings_cache_time)
       IN  /\ load_settings_cache' = r.lru
           /\ _settings_cache' = r.cache
           /\ _settings_cache_time' = r.time
           /\ last_call' =
                 [NoSettingsCall EXCEPT
                     !.op = "loadSetting",
                     !.key = key,
                     !.result = r.result,
                     !.got = IF key \in DOMAIN r.result THEN <<r.result[key]>> ELSE <<>>,
                     !.follows = IF last_call.op = "updateSetting" /\ last_call.ok
                                    /\ last_call.key = key
                                 THEN <<last_call.value>> ELSE <<>>]
    /\ UNCHANGED settings_file
    /\ UNCHANGED <<interp_vars, main_vars, gui_vars>>
    /\ UNCHANGED export_vars
    /\ UNCHANGED metrics_vars

\* updateSetting(key, value): the dict _load_settings returned is changed in
\* place and written; cache_clear() follows a write that succeeded, the error
\* signal one that failed.  The dict is the object the lru_cache holds.
updateSetting(key, value) ==
    /\ LET r == _load_settings(settings_file, load_settings_cache, _settings_cache,
                               _settings_cache_time)
           settings == setitem(r.result, key, value)
       IN  /\ _settings_cache' = r.cache
           /\ _settings_cache_time' = r.time
           /\ \E write_ok \in BOOLEAN :
                 /\ IF write_ok
                    THEN /\ settings_file.mtime < MaxWrites
                         /\ settings_file' = [exists |-> TRUE,
                                              mtime |-> settings_file.mtime + 1,
                                              text |-> settings_dumps(settings)]
                         /\ load_settings_cache' = <<>>
                    ELSE /\ load_settings_cache' = <<settings>>
                         /\ UNCHANGED settings_file
                 /\ last_call' =
                       [NoSettingsCall EXCEPT
                           !.op = "updateSetting",
                           !.key = key,
                           !.value = value,
                           !.ok = write_ok,
                           !.error = ~write_ok,
                           !.disk_before = OnDisk(settings_file),
                           !.loaded_before = r.result]
    /\ UNCHANGED <<interp_vars, main_vars, gui_vars>>
    /\ UNCHANGED export_vars
    /\ UNCHANGED metrics_vars

NextSettings ==
    \/ EditSettingsFile
    \/ RemoveSettingsFile
    \/ LoadSettings
    \/ \E key \in SettingsKeys : loadSetting(key)
    \/ \E key \in SettingsKeys, value \in SettingsValues : updateSetting(key, value)

SpecSettings == InitSettings /\ [][NextSettings]_vars

---------------------------------------------------------------------------
(* report_renderer.export_latest_report over a log directory that scans     *)
(* write reports into.                                                       *)

InitExport ==
    /\ NoCall
    /\ MainIdle
    /\ GuiIdle
    /\ SettingsIdle
    /\ ExportIdle
    /\ MetricsIdle

\* a scan writes diagnostic_<stamp>.json, or writes one again in its place in the
\* directory; time does not go back
WriteReport ==
    /\ \E stem \in Stems :
          LET last == IF export_logs = <<>> THEN 1 ELSE LatestJson(export_logs).mtime
              at == {i \in 1..Len(export_logs) : export_logs[i].stem = stem}
          IN  \E mtime \in last..MaxMtime :
                  /\ \A i \in at : export_logs[i].mtime < mtime
                  /\ export_logs' =
                        IF at = {} THEN Append(export_logs, [stem |-> stem, mtime |-> mtime])
                        ELSE [i \in 1..Len(export_logs) |->
                                 IF i \in at THEN [stem |-> stem, mtime |-> mtime]
                                 ELSE export_logs[i]]
    /\ exported' = NoExport
    /\ UNCHANGED output_dir
    /\ UNCHANGED <<interp_vars, main_vars, gui_vars, settings_vars>>
    /\ UNCHANGED metrics_vars

\* one call of export_latest_report(output_dir, log_dir, template_name, fmt)
Export ==
    /\ \E fmt \in Fmts, template_found \in BOOLEAN, pdfkit \in PdfkitAnswers :
          LET r == export_latest_report(output_dir, export_logs, template_found, fmt,
                                        pdfkit)
          IN  /\ output_dir' = [exists |-> r.exists, files |-> r.out.files]
              /\ exported' = [called |-> TRUE, fmt |-> fmt,
                              template_found |-> template_found, pdfkit |-> pdfkit,
                              k |-> r.out.k, exc |-> r.out.exc, path |-> r.out.path,
                              json_files |-> export_logs,
                              files_before |-> output_dir.files]
    /\ UNCHANGED export_logs
    /\ UNCHANGED <<interp_vars, main_vars, gui_vars, settings_vars>>
    /\ UNCHANGED metrics_vars

NextExport ==
    \/ WriteReport
    \/ Export

SpecExport == InitExport /\ [][NextExport]_vars

---------------------------------------------------------------------------
(* One SystemMetrics instance polled by its owner: collect is called over   *)
(* and over while time passes.                                              *)

InitMetrics ==
    /\ NoCall
    /\ MainIdle
    /\ GuiIdle
    /\ SettingsIdle
    /\ ExportIdle
    /\ MetricsIdle

\* a second passes
Tick ==
    /\ clock < MaxClock
    /\ clock' = clock + 1
    /\ UNCHANGED <<metrics, collect_call>>
    /\ UNCHANGED <<interp_vars, main_vars, gui_vars, settings_vars>>
    /\ UNCHANGED export_vars

\* one call of SystemMetrics.collect
Collect ==
    /\ \E ps \in PsutilAnswers, gpu \in GpuAnswers :
          LET r == collect(metrics, clock, ps, gpu)
          IN  /\ metrics' = r.self
              /\ collect_call' = [called |-> TRUE, out |-> r.out,
                               cpu_sensor |-> \E i \in 1..Len(ps.sensors.entries) :
                                                  IsCpuSensor(ps.sensors.entries[i])]
    /\ UNCHANGED clock
    /\ UNCHANGED <<interp_vars, main_vars, gui_vars, settings_vars>>
    /\ UNCHANGED export_vars

NextMetrics ==
    \/ Tick
    \/ Collect

SpecMetrics == InitMetrics /\ [][NextMetrics]_vars

---------------------------------------------------------------------------
(* Properties.  The readings are taken from the report itself, as the       *)
(* caller wrote it, and the verdict from the summary the call returned.     *)

\* the entries of summary.warnings that contain sub, in order
WarningsWith(sub) == SelectSeq(summary.warnings, LAMBDA w : Contains(w, sub))

\* the reading is a number (int, float or bool) of the report
Numeric(v) == v.k \in {"int", "float", "bool"}

\* temps.cpu_c as the report gives it (Absent when temps or the key is missing)
CpuReading == report.temps.cpu_c

\* storage.usage.used_percent as the report gives it
UsedReading == report.storage.usage.used_percent

\* the drive names of storage.smart whose entry has healthy other than "PASSED"
FailedNames ==
    LET d == report.storage.smart.drives
        bad == SelectSeq(d, LAMBDA e :
                   e.info.k = "dict" /\ ~(e.info.healthy.k = "str"
                                          /\ e.info.healthy.s = "PASSED"))
    IN  [i \in 1..Len(bad) |-> bad[i].name]

\* C1: whenever interpret_report returns, component_status.temperatures follows
\* from temps.cpu_c alone: Critical with the one warning "CPU temperature
\* critical: {value}°C" iff cpu_c is a number >= 90, Warning with the one
\* warning "CPU temperature high: {value}°C" iff it is a number in [80, 90),
\* and Good with no temperature warning otherwise (below 80, missing, not a number).
C1_TemperatureRule ==
    pc = "return" =>
        LET c == CpuReading
            st == summary.component_status.temperatures
            tw == WarningsWith("CPU temperature")
            critical == Numeric(c) /\ c.n >= 900
            high == Numeric(c) /\ c.n >= 800 /\ c.n < 900
        IN  /\ st \in {"Good", "Warning", "Critical"}
            /\ (st = "Critical") <=> critical
            /\ (st = "Warning") <=> high
            /\ critical => tw = <<"CPU temperature critical: " \o Str(c) \o "°C">>
            /\ high => tw = <<"CPU temperature high: " \o Str(c) \o "°C">>
            /\ (st = "Good") => tw = <<>>

\* C1 witness: cpu_c is exactly 90 and the call returned Critical with its warning
C1_Witness ==
    /\ pc = "return"
    /\ CpuReading = IntV(90)
    /\ summary.component_status.temperatures = "Critical"
    /\ summary.warnings[1] = "CPU temperature critical: 90°C"

\* C2: whenever interpret_report returns for a report whose used_percent is a
\* number p, the usage warning is "Disk space critically low: {p}% used" iff
\* p >= 90, "Disk space running low: {p}% used" iff 80 <= p < 90 and absent
\* otherwise, whatever storage.smart holds; and with no failed SMART drive
\* component_status.storage is Critical, Warning or Good respectively.
C2_DiskUsageRule ==
    (pc = "return" /\ Numeric(UsedReading)) =>
        LET p == UsedReading
            st == summary.component_status.storage
            uw == WarningsWith("Disk space")
            law == IF p.n >= 900 THEN "Critical"
                   ELSE IF p.n >= 800 THEN "Warning" ELSE "Good"
        IN  /\ uw = (IF law = "Critical"
                     THEN <<"Disk space critically low: " \o Str(p) \o "% used">>
                     ELSE IF law = "Warning"
                     THEN <<"Disk space running low: " \o Str(p) \o "% used">>
                     ELSE <<>>)
            /\ (FailedNames = <<>>) => st = law

\* C2 witness: used_percent is exactly 80, no drive failed, storage is Warning
C2_Witness ==
    /\ pc = "return"
    /\ UsedReading = IntV(80)
    /\ FailedNames = <<>>
    /\ Len(report.storage.smart.drives) > 0
    /\ summary.component_status.storage = "Warning"
    /\ WarningsWith("Disk space") = <<"Disk space running low: 80% used">>

\* C3: whenever interpret_report returns for a report in which some entry of
\* storage.smart has healthy other than "PASSED", component_status.storage is
\* Critical whatever used_percent is, and warnings holds exactly one SMART
\* entry, "SMART health check failed for drives: " followed by exactly the
\* failed drives comma-joined, placed after any disk-usage warning.
C3_SmartFailureForcesCritical ==
    (pc = "return" /\ FailedNames /= <<>>) =>
        LET w == summary.warnings
        IN  /\ summary.component_status.storage = "Critical"
            /\ WarningsWith("SMART") =
                  <<"SMART health check failed for drives: " \o Join(", ", FailedNames)>>
            /\ \A i, j \in 1..Len(w) :
                  (Contains(w[i], "Disk space") /\ Contains(w[j], "SMART")) => i < j

\* C3 witness: used_percent is 50, two drives failed, storage is Critical
C3_Witness ==
    /\ pc = "return"
    /\ UsedReading = IntV(50)
    /\ Len(FailedNames) = 2
    /\ summary.component_status.storage = "Critical"
    /\ WarningsWith("SMART") =
          <<"SMART health check failed for drives: /dev/sd1, /dev/sd2">>

\* C4: whenever interpret_report returns, component_status.system is Warning
\* iff system.RAM_GB is a number below 8 or system.Cores is an integer below 4,
\* and Good otherwise; the RAM condition adds "Low RAM detected: {value} GB"
\* and the cores condition "Low CPU core count: {value} cores", and nothing
\* else adds them.
C4_SystemRule ==
    pc = "return" =>
        LET ram == report.system.RAM_GB
            cores == report.system.Cores
            ram_low == Numeric(ram) /\ ram.n < 80
            cores_low == cores.k \in {"int", "bool"} /\ cores.n < 40
            st == summary.component_status.system
        IN  /\ (st = "Warning") <=> (ram_low \/ cores_low)
            /\ (st = "Good") <=> ~(ram_low \/ cores_low)
            /\ WarningsWith("Low RAM") =
                  (IF ram_low THEN <<"Low RAM detected: " \o Str(ram) \o " GB">> ELSE <<>>)
            /\ WarningsWith("Low CPU core") =
                  (IF cores_low
                   THEN <<"Low CPU core count: " \o Str(cores) \o " cores">> ELSE <<>>)

\* severity order Good < Warning < Critical
Severity(status) ==
    CASE status = "Critical" -> 2 [] status = "Warning" -> 1 [] OTHER -> 0

\* the three component statuses of the summary
Components ==
    <<summary.component_status.temperatures, summary.component_status.storage,
      summary.component_status.system>>

\* C5: in every summary interpret_report returns, status is the maximum of the
\* three component_status values under Good < Warning < Critical.
C5_OverallIsWorstComponent ==
    pc = "return" =>
        /\ summary.status \in {"Good", "Warning", "Critical"}
        /\ \E i \in 1..3 : Components[i] = summary.status
        /\ \A i \in 1..3 : Severity(Components[i]) <= Severity(summary.status)

\* C5 witness: one component Critical, one Warning, one Good, overall Critical
C5_Witness ==
    /\ pc = "return"
    /\ summary.component_status.temperatures = "Good"
    /\ summary.component_status.storage = "Critical"
    /\ summary.component_status.system = "Warning"
    /\ summary.status = "Critical"

\* number of components of the summary at the given status
CountAt(status) == Cardinality({i \in 1..3 : Components[i] = status})

\* the statuses strictly worse than the given one
Worse(status) == {w \in {"Good", "Warning", "Critical"} : Severity(w) > Severity(status)}

\* C6: in every summary interpret_report returns, health_score is
\* max(0, 100 - 30 * #Critical - 15 * #Warning) over the three component
\* statuses of that summary, and the score of the same statuses with any one
\* component made worse is not greater.
C6_HealthScore ==
    pc = "return" =>
        LET expected == 100 - 30 * CountAt("Critical") - 15 * CountAt("Warning")
            c == Components
        IN  /\ summary.health_score = (IF expected < 0 THEN 0 ELSE expected)
            /\ \A w \in Worse(c[1]) :
                  _calculate_health_score(w, c[2], c[3]) <= summary.health_score
            /\ \A w \in Worse(c[2]) :
                  _calculate_health_score(c[1], w, c[3]) <= summary.health_score
            /\ \A w \in Worse(c[3]) :
                  _calculate_health_score(c[1], c[2], w) <= summary.health_score

\* C6 witness: two components Critical and one Warning, score 25
C6_Witness ==
    /\ pc = "return"
    /\ CountAt("Critical") = 2
    /\ CountAt("Warning") = 1
    /\ summary.health_score = 25

\* C7: absence is never penalized: whenever interpret_report returns, a reading
\* missing from the report adds no warning and leaves its component Good, and
\* interpret_report({}) returns Good, no warnings, no recommendations and 100.
C7_AbsenceNotPenalized ==
    pc = "return" =>
        /\ (CpuReading.k = "absent") =>
              /\ summary.component_status.temperatures = "Good"
              /\ WarningsWith("CPU temperature") = <<>>
        /\ (UsedReading.k = "absent") => WarningsWith("Disk space") = <<>>
        /\ (report.storage.smart.k = "absent") => WarningsWith("SMART") = <<>>
        /\ (UsedReading.k = "absent" /\ report.storage.smart.k = "absent") =>
              summary.component_status.storage = "Good"
        /\ (report.system.RAM_GB.k = "absent") => WarningsWith("Low RAM") = <<>>
        /\ (report.system.Cores.k = "absent") => WarningsWith("Low CPU core") = <<>>
        /\ (report.system.RAM_GB.k = "absent" /\ report.system.Cores.k = "absent") =>
              summary.component_status.system = "Good"
        /\ (report.temps.k = "absent" /\ report.storage.k = "absent"
                /\ report.system.k = "absent") =>
              /\ summary.status = "Good"
              /\ summary.warnings = <<>>
              /\ summary.recommendations = <<>>
              /\ summary.health_score = 100

\* the summary of a first call in a new process
FreshSummary(rep) == interpret_report(rep, <<>>, <<>>).summary

\* C8: interpret_report never raises: every call returns a summary, also for a
\* report in which a value is present but of an unexpected type, and a str
\* where a number is expected gives the summary the report gives without it.
C8_NeverRaises ==
    /\ pc /= "raise"
    /\ pc = "return" =>
          /\ (CpuReading.k = "str") =>
                summary = FreshSummary([report EXCEPT !.temps.cpu_c = Absent])
          /\ (report.system.RAM_GB.k = "str") =>
                summary = FreshSummary([report EXCEPT !.system.RAM_GB = Absent])
          /\ (report.system.Cores.k = "str") =>
                summary = FreshSummary([report EXCEPT !.system.Cores = Absent])

\* C9: interpret_report is deterministic: the outcome of every call is the
\* outcome the same report has in a process that has made no call before, so
\* no two calls on equal reports differ, whatever calls came between them and
\* whatever the two lru_cache tables hold.
C9_Deterministic ==
    /\ \A h \in history :
          /\ h[2].exc = interpret_report(h[1], <<>>, <<>>).exc
          /\ h[2].summary = FreshSummary(h[1])
    /\ \A g, h \in history : g[1] = h[1] => g[2] = h[2]

\* C9 witness: a second call, on another report, was answered from the cache
\* entry the first call stored (90 and 90.0 are one key)
C9_Witness ==
    /\ pc = "return"
    /\ ncalls = 2
    /\ Cardinality(history) = 2
    /\ UsedReading = FloatV(900)
    /\ \E h \in history : h[1].storage.usage.used_percent = IntV(90)
    /\ Len(status_cache) = 1
    /\ summary.component_status.storage = "Critical"

\* the place of a warning in the order temperature, disk usage, SMART, RAM, cores
Place(w) ==
    IF Contains(w, "CPU temperature") THEN 1
    ELSE IF Contains(w, "Disk space") THEN 2
    ELSE IF Contains(w, "SMART") THEN 3
    ELSE IF Contains(w, "Low RAM") THEN 4
    ELSE IF Contains(w, "Low CPU core") THEN 5
    ELSE 0

\* C10: in every summary, warnings lists the temperature warnings first, then
\* the storage warnings (usage before SMART), then the system warnings (RAM
\* before cores): no warning of a later place precedes one of an earlier place.
C10_WarningOrder ==
    pc = "return" =>
        LET w == summary.warnings
        IN  /\ \A i \in 1..Len(w) : Place(w[i]) \in 1..5
            /\ \A i, j \in 1..Len(w) : i < j => Place(w[i]) < Place(w[j])

\* C10 witness: a summary with all five warnings
C10_Witness ==
    /\ pc = "return"
    /\ Len(summary.warnings) = 5
    /\ Place(summary.warnings[1]) = 1
    /\ Place(summary.warnings[5]) = 5

C12_HealthyReportIsOK ==
    (/\ pc /= "call"
     /\ report.temps.k = "absent"
     /\ Numeric(report.system.RAM_GB) /\ report.system.RAM_GB.n >= 80
     /\ report.system.Cores.k = "absent"
     /\ UsedReading \in {Absent, IntV(50)}
     /\ report.storage.used_percent \in {Absent, IntV(50)}
     /\ IntV(50) \in {UsedReading, report.storage.used_percent}) =>
        /\ pc = "return"
        /\ summary.status = "OK"
        /\ summary.warnings = <<>>
        /\ summary.recommendations = <<>>

\* action ids DiagnosticController.runAction dispatches
links == {"upgrade_ram", "disk_cleanup", "update_drivers", "check_temps", "optimize_startup"}

\* recommendations as records: a text and an action id
ActionRecords(texts) == {[text |-> t, action |-> a] : t \in texts, a \in links}

\* C13: for a report with RAM_GB below 8 and used_percent 95 given directly
\* under storage, interpret_report returns status "WARN", warnings containing
\* "Low Memory" and "Disk Almost Full", and recommendations that are records
\* with a text and an action, among the actions upgrade_ram and disk_cleanup.
C13_LowRamFullDiskWarns ==
    (/\ pc /= "call"
     /\ Numeric(report.system.RAM_GB) /\ report.system.RAM_GB.n < 80
     /\ report.storage.used_percent = IntV(95)) =>
        /\ pc = "return"
        /\ summary.status = "WARN"
        /\ AnyContains(summary.warnings, "Low Memory")
        /\ AnyContains(summary.warnings, "Disk Almost Full")
        /\ \E texts \in SUBSET {"Upgrade RAM", "Run disk cleanup"} :
              /\ \A i \in 1..Len(summary.recommendations) :
                    summary.recommendations[i] \in ActionRecords(texts)
              /\ \A a \in {"upgrade_ram", "disk_cleanup"} :
                    \E i \in 1..Len(summary.recommendations) :
                        summary.recommendations[i].action = a

\* C14: in a scan run by diagnostics.main the temps mapping handed to the
\* interpreter carries the collected CPU temperature under the key cpu_c, so
\* that whenever the collector read a CPU temperature >= 80 the returned
\* report has a temperature warning and component_status.temperatures is
\* Warning or Critical.
C14_ScanTemperatureWarning ==
    stage = "returned" =>
        LET collected == scan.temps.CPU_Temp_C
        IN  /\ report.temps.cpu_c = collected
            /\ (Numeric(collected) /\ collected.n >= 800) =>
                  /\ AnyContains(scan_report["warnings"], "CPU temperature")
                  /\ scan_report["component_status"].temperatures
                        \in {"Warning", "Critical"}

\* the value main's locals hold for a snapshot key of the report
Snapshot(key) ==
    CASE key = "timestamp" -> "2024-01-01T00:00:00"
      [] key = "system" -> scan.system
      [] key = "storage" -> scan.storage
      [] key = "windows11" -> scan.windows11
      [] OTHER -> scan.temps

\* C15: once main has merged the summary into the report, the report holds
\* every summary key (status, warnings, recommendations, component_status,
\* health_score) with the summary's value, and the snapshot keys timestamp,
\* system, storage, windows11 and temps hold exactly what the collectors
\* produced, through every later stage.
C15_MergeKeepsSnapshot ==
    (pc = "return" /\ stage /= "interpret") =>
        /\ DOMAIN summary =
              {"status", "warnings", "recommendations", "component_status",
               "health_score"}
        /\ \A key \in DOMAIN summary :
              key \in DOMAIN scan_report /\ scan_report[key] = summary[key]
        /\ \A key \in {"timestamp", "system", "storage", "windows11", "temps"} :
              key \in DOMAIN scan_report /\ scan_report[key] = Snapshot(key)

\* C15 witness: a merged report of a scan with a failed drive: the summary's
\* Critical status sits beside the storage section the collector returned
C15_Witness ==
    /\ stage = "persist"
    /\ pc = "return"
    /\ scan_report["status"] = "Critical"
    /\ scan_report["storage"] = scan.storage
    /\ scan.storage.smart.drives /= <<>>
    /\ scan_report["temps"].CPU_Temp_C = FloatV(850)

\* C16: the report main returns always has upload_status in {success, failed,
\* disabled}: disabled iff no endpoint is configured, success iff the POST
\* completed, failed iff the POST raised, with upload_error the message and
\* present only then; and a failed upload never makes main raise.
C16_UploadStatus ==
    /\ main_exc.stage /= "upload"
    /\ stage = "returned" =>
          /\ "upload_status" \in DOMAIN scan_report
          /\ scan_report["upload_status"] \in {"success", "failed", "disabled"}
          /\ (scan_report["upload_status"] = "disabled") <=> ~Truthy(scan.endpoint)
          /\ (scan_report["upload_status"] = "success") <=> (scan.upload_ok = BoolV(TRUE))
          /\ (scan_report["upload_status"] = "failed") <=> (scan.upload_ok = BoolV(FALSE))
          /\ ("upload_error" \in DOMAIN scan_report)
                <=> (scan_report["upload_status"] = "failed")
          /\ ("upload_error" \in DOMAIN scan_report) =>
                scan_report["upload_error"] = scan.upload_error.s

\* C17: within one scan the report is not mutated after it has been
\* persisted: the JSON file main wrote has exactly the keys and values of the
\* report main returns.
C17_FileIsReturnedReport ==
    stage = "returned" =>
        /\ json_file /= <<>>
        /\ DOMAIN json_load(json_file) = DOMAIN scan_report
        /\ json_load(json_file) = scan_report

\* the stages main can still start
PendingStages == {Stages[i] : i \in 1..Len(Stages)}

\* C18: cancellation is cooperative between stages: once stop() has been
\* called on a worker whose scan is in flight, the scan starts no further
\* stage (next collector, interpretation, persistence, rendering, upload)
\* after the stage that was running when the flag was set.
C18_CooperativeStop ==
    [][(_should_stop /\ stage \in PendingStages /\ stage /= stopped_at)
          => stage' = stage]_vars

\* the four collectors of main
Collectors == {"system", "storage", "windows11", "temps"}

\* C19: for each of the four collectors, a failure of the underlying platform
\* API surfaces as a benign placeholder in the report and never as an
\* exception: main goes on to the interpreter, with a mapping for the section.
C19_CollectorFailureIsPlaceholder ==
    /\ main_exc.stage \notin Collectors
    /\ \A c \in failures :
          (stage \notin PendingStages \/ stage \in {"interpret", "persist", "render",
                                                     "upload", "finish"}) =>
              scan[c].k = "dict"

\* C20: at any time, after any sequence of runScan calls, report files
\* appearing in the log directory and earlier loadLatestReport calls,
\* loadLatestReport returns the status, warnings, recommendations, system and
\* storage of the newest diagnostic_*.json file (greatest modification time,
\* ties broken by name), and {} when there is no such file.
C20_LoadsNewestReport ==
    loaded.called =>
        IF log_dir = {} THEN DOMAIN loaded.result = {}
        ELSE /\ DOMAIN loaded.result =
                   {"status", "warnings", "recommendations", "system", "storage"}
             /\ loaded.result = Extract(json_load(NewestFile(log_dir).text))

\* C26: in every summary interpret_report returns, status is Good iff
\* warnings is empty iff recommendations is empty, and each component's status
\* is Good iff that component contributed no warning.
C26_GoodIffNothingToSay ==
    pc = "return" =>
        /\ (summary.status = "Good") <=> (summary.warnings = <<>>)
        /\ (summary.warnings = <<>>) <=> (summary.recommendations = <<>>)
        /\ (summary.component_status.temperatures = "Good")
              <=> (WarningsWith("CPU temperature") = <<>>)
        /\ (summary.component_status.storage = "Good")
              <=> (WarningsWith("Disk space") = <<>> /\ WarningsWith("SMART") = <<>>)
        /\ (summary.component_status.system = "Good")
              <=> (WarningsWith("Low RAM") = <<>> /\ WarningsWith("Low CPU core") = <<>>)

\* C26 witness: only RAM is low: one warning, one recommendation, the system
\* component alone is not Good
C26_Witness ==
    /\ pc = "return"
    /\ summary.warnings = <<"Low RAM detected: 4 GB">>
    /\ summary.recommendations = <<"Consider upgrading RAM for better performance">>
    /\ summary.status = "Warning"
    /\ summary.component_status =
          [temperatures |-> "Good", storage |-> "Good", system |-> "Warning"]

\* C27: component_status.system is never Critical in any summary, so
\* health_score always lies in {10, 25, 40, 55, 70, 85, 100}: the deduction is
\* at most 90 and the clamp to 0 never takes effect.
C27_ScoreRange ==
    pc = "return" =>
        /\ summary.component_status.system /= "Critical"
        /\ summary.health_score \in {10, 25, 40, 55, 70, 85, 100}
        /\ 100 - summary.health_score <= 90
        /\ summary.health_score =
              100 - status_penalties(summary.component_status.temperatures)
                  - status_penalties(summary.component_status.storage)
                  - status_penalties(summary.component_status.system)

\* C27 witness: the lowest score a summary has: temperatures and storage
\* Critical, system Warning
C27_Witness ==
    /\ pc = "return"
    /\ summary.component_status =
          [temperatures |-> "Critical", storage |-> "Critical", system |-> "Warning"]
    /\ summary.health_score = 25

\* C21: at any time _load_settings returns the parsed contents of the
\* settings file as it currently is on disk: a cached value only while the
\* file has not changed since it was cached, and {} when the file is missing
\* or is not valid JSON.
C21_LoadSettingsIsCurrent ==
    last_call.op = "_load_settings" => last_call.result = OnDisk(settings_file)

\* C22: after a successful updateSetting(key, value) the settings file equals
\* its content just before the call with key set to value, every other key
\* preserved, and the next loadSetting(key) returns value.
C22_UpdateSettingFrame ==
    /\ (last_call.op = "updateSetting" /\ last_call.ok) =>
          /\ settings_file.exists
          /\ settings_file.text.valid
          /\ OnDisk(settings_file) =
                setitem(last_call.disk_before, last_call.key, last_call.value)
    /\ (last_call.op = "loadSetting" /\ last_call.follows /= <<>>) =>
          last_call.got = last_call.follows

\* C29: if writing the settings file fails inside updateSetting, the error
\* signal is emitted and the settings are unchanged: a later _load_settings
\* or loadSetting returns what it returned before the failed call, and the
\* rejected key/value is not visible.
C29_FailedUpdateChangesNothing ==
    (last_call.op = "updateSetting" /\ ~last_call.ok) =>
        /\ last_call.error
        /\ _load_settings(settings_file, load_settings_cache, _settings_cache,
                          _settings_cache_time).result = last_call.loaded_before

(* C23 as stated: with no diagnostic_*.json the call raises FileNotFoundError *)
(* and output_dir keeps its files; otherwise the call returns the path of    *)
(* the report of greatest modification time under its stem, with extension   *)
(* pdf iff fmt is "pdf" in any case of letters and html otherwise, and the   *)
(* path is a file of output_dir.                                             *)
C23_ExportAlwaysRenders ==
    exported.called =>
        IF exported.json_files = <<>>
        THEN /\ exported.k = "raise"
             /\ exported.exc = "FileNotFoundError"
             /\ output_dir.files = exported.files_before
        ELSE /\ exported.k = "return"
             /\ \A i \in 1..Len(exported.json_files) :
                    exported.json_files[i].mtime <= LatestJson(exported.json_files).mtime
             /\ exported.path.stem = LatestJson(exported.json_files).stem
             /\ exported.path.ext =
                    IF /\ Len(exported.fmt) = 3
                       /\ exported.fmt[1] \in {"p", "P"}
                       /\ exported.fmt[2] \in {"d", "D"}
                       /\ exported.fmt[3] \in {"f", "F"}
                    THEN "pdf" ELSE "html"
             /\ exported.path \in output_dir.files

(* C23 as the code has it: the same, but with a report in the log directory *)
(* the call may also raise and write nothing: TemplateNotFound when the     *)
(* template is not found, OSError when fmt is pdf and pdfkit fails with an  *)
(* OSError that does not name wkhtmltopdf.  Whenever it returns, the path   *)
(* is as stated and exists.                                                  *)
C23_ExportRendersOrRaises ==
    exported.called =>
        IF exported.json_files = <<>>
        THEN /\ exported.k = "raise"
             /\ exported.exc = "FileNotFoundError"
             /\ output_dir.files = exported.files_before
        ELSE LET pdf == /\ Len(exported.fmt) = 3
                        /\ exported.fmt[1] \in {"p", "P"}
                        /\ exported.fmt[2] \in {"d", "D"}
                        /\ exported.fmt[3] \in {"f", "F"}
                 pdfkit_fails == /\ pdf
                                 /\ exported.pdfkit.k = "OSError"
                                 /\ ~Contains(exported.pdfkit.msg, <<"wkhtmltopdf">>)
             IN  /\ exported.k = "raise" <=> (~exported.template_found \/ pdfkit_fails)
                 /\ exported.k = "raise" =>
                        /\ exported.exc = IF ~exported.template_found
                                          THEN "TemplateNotFound" ELSE "OSError"
                        /\ output_dir.files = exported.files_before
                 /\ exported.k = "return" =>
                        /\ exported.path.stem = LatestJson(exported.json_files).stem
                        /\ \A i \in 1..Len(exported.json_files) :
                               exported.json_files[i].mtime
                                   <= LatestJson(exported.json_files).mtime
                        /\ exported.path.ext = IF pdf THEN "pdf" ELSE "html"
                        /\ exported.path \in output_dir.files

\* fmt "PDF" exported the later of two reports as .pdf, next to an earlier export
C23_Witness ==
    /\ exported.called
    /\ exported.k = "return"
    /\ exported.fmt = <<"P", "D", "F">>
    /\ Len(exported.json_files) = 2
    /\ exported.json_files[1].mtime > exported.json_files[2].mtime
    /\ exported.path = [stem |-> exported.json_files[1].stem, ext |-> "pdf"]
    /\ exported.path \in output_dir.files
    /\ exported.files_before /= {}

(* C24 as stated: a call of collect returns a mapping with exactly the keys *)
(* timestamp, cpu, gpu, ram, disk, network, temps, and temps.cpu_c is       *)
(* "Unavailable" when no CPU sensor is found.                               *)
C24_CollectReturnsAllKeys ==
    collect_call.called =>
        /\ collect_call.out.exc = ""
        /\ DOMAIN collect_call.out.value =
               {"timestamp", "cpu", "gpu", "ram", "disk", "network", "temps"}
        /\ ~collect_call.cpu_sensor =>
               collect_call.out.value.temps.cpu_c = StrV("Unavailable")

(* C25: in a run of main that returns, the values passed to the callback   *)
(* (in hundredths) lie in 0..100 and never decrease; the first is 0 and is *)
(* passed before any collector has run; the last is 100, the only 100, and *)
(* is passed after the JSON file was written and, with an endpoint, after  *)
(* _upload_report answered; 95 and 97 are passed iff there is an endpoint. *)
C25_ProgressOrder ==
    stage = "returned" =>
        LET e == scan.emitted
            n == Len(e)
        IN  /\ n >= 1
            /\ \A i \in 1..n : e[i].value >= 0 /\ e[i].value <= 100
            /\ \A i \in 1..n : \A j \in i..n : e[i].value <= e[j].value
            /\ e[1].value = 0
            /\ e[1].ran = {}
            /\ e[n].value = 100
            /\ Cardinality({i \in 1..n : e[i].value = 100}) = 1
            /\ e[n].written
            /\ Truthy(scan.endpoint) => e[n].uploaded
            /\ (\E i \in 1..n : e[i].value = 95) <=> Truthy(scan.endpoint)
            /\ (\E i \in 1..n : e[i].value = 97) <=> Truthy(scan.endpoint)

\* a scan with an endpoint returned after the eight calls of the callback, the
\* stop flag set on the way
C25_Witness ==
    /\ stage = "returned"
    /\ Truthy(scan.endpoint)
    /\ _should_stop
    /\ Len(scan.emitted) = 8
    /\ [i \in 1..8 |-> scan.emitted[i].value] = <<0, 25, 50, 75, 90, 95, 97, 100>>
    /\ scan.emitted[6].written /\ ~scan.emitted[6].uploaded

(* C28 as stated: at no time are two DiagnosticWorkers inside              *)
(* diagnostics.main.                                                        *)
C28_OneScanAtATime ==
    Cardinality({w \in 1..Len(workers) : workers[w].phase = "main"}) <= 1

(* C30 as stated: the controller handles finished or error (loading(False), *)
(* completed, _worker = None) of no worker other than the one started last  *)
(* while that one is still running.                                         *)
C30_OnlyNewestWorkerClears ==
    handled.signal /= "" =>
        ~(handled.worker /= handled.newest /\ handled.newest_running)

====
